---- MODULE Spec2Model ----
(***************************************************************************)
(* claude-stack: dependency graph, cycle detection, topological sort, the  *)
(* status store and the run command / execution engine.                    *)
(*                                                                         *)
(* Plan ids are strings in the program.  They are modelled as the numbers  *)
(* of PlanIds; the numeric order stands for the ascending lexicographic    *)
(* order of the ids ("1" < "2" < "3").                                     *)
(***************************************************************************)
EXTENDS Integers, Sequences, FiniteSets, TLC

PlanIds == {1, 2, 3}

\* Bounds of the model.
MaxPlans == 4      \* longest plan list of a stack
MaxEdges == 3      \* most dependency references in one stack, all plans together

\* A nullable value is the empty sequence (null) or <<v>>.
NULL == <<>>
Some(v) == <<v>>

VARIABLES
  \* ---- the sort, run step by step on one input (SortSpec)
  sortInput,       \* stackPlans given to getExecutionOrder
  spc,             \* position inside topologicalSort
  inDegree,        \* Map<string, number> of topologicalSort (values only; keys in graph order)
  queue,           \* the ready queue of topologicalSort
  sortedPlanIds,   \* the result list being built
  sortResult,      \* what topologicalSort returned
  \* ---- persisted state
  planStore,       \* the plan files: id -> NULL (no file) or Some(references)
  stack,           \* the stack record (stacks/<name>.json)
  statusFile,      \* the status record (status/<name>.json)
  \* ---- the run command in progress
  pc,              \* position of the run: idle, execute, loop, worker
  opts,            \* RunOptions of the command
  runStack,        \* executeStack's in-memory stack.plans
  executionOrder,  \* executeStack's executionOrder
  idx,             \* position of the for-loop in executionOrder
  completedPlanIds,\* executeStack's completedPlanIds
  \* ---- history of the current (or last) command, for the properties
  invoked,         \* plans executePlan was called for
  results,         \* executeStack's results: <<planId, executionStatus>> of every push
  startStatus,     \* the status record as executeStack first loaded it
  lastOp,          \* how the last command ended
  \* ---- a second invocation of the run command on the same stack
  otherRun,        \* its locals and history while the first is the one taking steps
  \* ---- history of the stack commands, for the properties
  request,         \* what the last create, add or remove was called with
  \* ---- resolveAllDependencies run step by step (ResolveSpec)
  rpc,             \* position inside resolveAllDependencies: idle, loop, done
  rAllPlanIds,     \* its Set allPlanIds
  rAllPlans,       \* its list allPlans, each plan held by its planId
  rToResolve       \* its stack toResolve of reference strings

sortVars == <<sortInput, spc, inDegree, queue, sortedPlanIds, sortResult>>
storeVars == <<stack, statusFile>>
allStoreVars == <<planStore, stack, statusFile>>
runVars == <<pc, opts, runStack, executionOrder, idx, completedPlanIds>>
histVars == <<invoked, results, startStatus, lastOp>>
resolveVars == <<rpc, rAllPlanIds, rAllPlans, rToResolve>>
sideVars == <<otherRun, request, resolveVars>>
vars == <<sortVars, planStore, storeVars, runVars, histVars, sideVars>>

(***************************************************************************)
(* Array helpers (JavaScript Array methods used by the code).              *)
(***************************************************************************)
Range(s) == {s[i] : i \in 1..Len(s)}

includes(s, x) == \E i \in 1..Len(s) : s[i] = x

\* Array.prototype.indexOf, 1-based; 0 stands for JavaScript's -1.
indexOf(s, x) ==
  IF includes(s, x) THEN CHOOSE i \in 1..Len(s) : s[i] = x /\ \A j \in 1..(i-1) : s[j] # x
  ELSE 0

\* Keys of a Map the elements of s were set into, in insertion order: a key set
\* again keeps its first position.
RECURSIVE MapKeys(_)
MapKeys(s) ==
  IF s = <<>> THEN <<>>
  ELSE LET front == MapKeys(SubSeq(s, 1, Len(s) - 1))
           x == s[Len(s)]
       IN IF includes(front, x) THEN front ELSE Append(front, x)

RECURSIVE Flatten(_)
Flatten(ss) == IF ss = <<>> THEN <<>> ELSE Head(ss) \o Flatten(Tail(ss))

SeqsUpTo(S, n) == UNION {[1..k -> S] : k \in 0..n}

(***************************************************************************)
(* getExecutionOrder: the graph built from a stack's plans.                *)
(* A Map is modelled as keys (insertion order) and nodes (key -> value).   *)
(***************************************************************************)
\* The plan of the list that the last graph.set for id wrote.
LastPlan(stackPlans, id) ==
  stackPlans[CHOOSE i \in 1..Len(stackPlans) :
               /\ stackPlans[i].planId = id
               /\ \A j \in (i+1)..Len(stackPlans) : stackPlans[j].planId # id]

\* The (depId, planId) pushes of the reverse-dependency loop, in order.
ReversePushes(stackPlans) ==
  Flatten([i \in 1..Len(stackPlans) |->
             [k \in 1..Len(stackPlans[i].dependsOnPlanIds) |->
                <<stackPlans[i].dependsOnPlanIds[k], stackPlans[i].planId>>]])

RECURSIVE PushedTo(_, _)
PushedTo(pushes, id) ==
  IF pushes = <<>> THEN <<>>
  ELSE IF Head(pushes)[1] = id
       THEN <<Head(pushes)[2]>> \o PushedTo(Tail(pushes), id)
       ELSE PushedTo(Tail(pushes), id)

StackGraph(stackPlans) ==
  LET keys == MapKeys([i \in 1..Len(stackPlans) |-> stackPlans[i].planId])
      pushes == ReversePushes(stackPlans)
  IN [keys  |-> keys,
      nodes |-> [id \in Range(keys) |->
                   [planId           |-> id,
                    dependsOnPlanIds |-> LastPlan(stackPlans, id).dependsOnPlanIds,
                    dependentPlanIds |-> PushedTo(pushes, id)]]]

(***************************************************************************)
(* detectCycle: depth-first search with a visited set and the current path.*)
(* dfs returns [found, visited, cycleNodes]; visited is the closure's set. *)
(***************************************************************************)
RECURSIVE dfs(_, _, _, _)
RECURSIVE dfsDeps(_, _, _, _, _)

\* dfsDeps reporting the whole current path instead of the slice from cycleStart
RECURSIVE dfsDepsWholePath(_, _, _, _, _)
dfsDepsWholePath(graph, deps, i, path, visited) ==
  IF i > Len(deps) THEN [found |-> FALSE, visited |-> visited, cycleNodes |-> <<>>]
  ELSE LET depId == deps[i] IN
       IF depId \notin visited
       THEN LET r == dfs(graph, depId, Append(path, depId), visited)
            IN IF r.found THEN r
               ELSE dfsDepsWholePath(graph, deps, i + 1, path, r.visited)
       ELSE IF includes(path, depId)
            THEN [found |-> TRUE, visited |-> visited, cycleNodes |-> Append(path, depId)]
            ELSE dfsDepsWholePath(graph, deps, i + 1, path, visited)

\* dfsDeps looking for depId among the ancestors of the node only
RECURSIVE dfsDepsAncestorsOnly(_, _, _, _, _)
dfsDepsAncestorsOnly(graph, deps, i, path, visited) ==
  IF i > Len(deps) THEN [found |-> FALSE, visited |-> visited, cycleNodes |-> <<>>]
  ELSE LET depId == deps[i] IN
       IF depId \notin visited
       THEN LET r == dfs(graph, depId, Append(path, depId), visited)
            IN IF r.found THEN r
               ELSE dfsDepsAncestorsOnly(graph, deps, i + 1, path, r.visited)
       ELSE IF includes(SubSeq(path, 1, Len(path) - 1), depId)
            THEN [found |-> TRUE, visited |-> visited,
                  cycleNodes |-> Append(SubSeq(path, indexOf(path, depId), Len(path)), depId)]
            ELSE dfsDepsAncestorsOnly(graph, deps, i + 1, path, visited)

\* the for-loop of dfs over node.dependsOnPlanIds, from position i
dfsDeps(graph, deps, i, path, visited) ==
  IF i > Len(deps) THEN [found |-> FALSE, visited |-> visited, cycleNodes |-> <<>>]
  ELSE LET depId == deps[i] IN
       IF depId \notin visited
       THEN LET r == dfs(graph, depId, Append(path, depId), visited)
            IN IF r.found THEN r
               ELSE dfsDeps(graph, deps, i + 1, path, r.visited)
       ELSE IF includes(path, depId)
            THEN [found |-> TRUE, visited |-> visited,
                  cycleNodes |-> Append(SubSeq(path, indexOf(path, depId), Len(path)), depId)]
            ELSE dfsDeps(graph, deps, i + 1, path, visited)

dfs(graph, nodeId, path, visited) ==
  LET v == visited \cup {nodeId} IN
  IF nodeId \notin DOMAIN graph.nodes
  THEN [found |-> FALSE, visited |-> v, cycleNodes |-> <<>>]
  ELSE dfsDeps(graph, graph.nodes[nodeId].dependsOnPlanIds, 1, path, v)

\* detectCycle searching from the first key only
detectFromFirstKey(graph, i, visited) ==
  IF i > Len(graph.keys) THEN [hasCycle |-> FALSE, cycleNodes |-> <<>>]
  ELSE LET r == dfs(graph, graph.keys[i], <<graph.keys[i]>>, visited)
       IN [hasCycle |-> r.found, cycleNodes |-> r.cycleNodes]

\* the for-loop of detectCycle over graph.keys(), from position i
RECURSIVE detectFrom(_, _, _)
detectFrom(graph, i, visited) ==
  IF i > Len(graph.keys) THEN [hasCycle |-> FALSE, cycleNodes |-> <<>>]
  ELSE LET nodeId == graph.keys[i] IN
       IF nodeId \in visited THEN detectFrom(graph, i + 1, visited)
       ELSE LET r == dfs(graph, nodeId, <<nodeId>>, visited)
            IN IF r.found THEN [hasCycle |-> TRUE, cycleNodes |-> r.cycleNodes]
               ELSE detectFrom(graph, i + 1, r.visited)

detectCycle(graph) == detectFrom(graph, 1, {})

(***************************************************************************)
(* topologicalSort: Kahn's algorithm.                                      *)
(***************************************************************************)
\* in-degrees as first computed: the number of entries of dependsOnPlanIds
initialInDegree(graph) ==
  [id \in DOMAIN graph.nodes |-> Len(graph.nodes[id].dependsOnPlanIds)]

\* the queue as first filled: inDegree.forEach in key order
initialQueue(graph) ==
  SelectSeq(graph.keys, LAMBDA id : initialInDegree(graph)[id] = 0)

\* reduceDependents enqueueing a dependent as soon as one dependency is emitted
RECURSIVE reduceDependentsNoWait(_, _, _, _)
reduceDependentsNoWait(dependents, i, deg, q) ==
  IF i > Len(dependents) THEN [inDegree |-> deg, queue |-> q]
  ELSE LET depId == dependents[i]
           newDegree == deg[depId] - 1
       IN reduceDependentsNoWait(dependents, i + 1,
                                 [deg EXCEPT ![depId] = newDegree],
                                 IF includes(q, depId) THEN q ELSE Append(q, depId))

\* node.dependentPlanIds.forEach of one dequeue step, from position i
RECURSIVE reduceDependents(_, _, _, _)
reduceDependents(dependents, i, deg, q) ==
  IF i > Len(dependents) THEN [inDegree |-> deg, queue |-> q]
  ELSE LET depId == dependents[i]
           newDegree == deg[depId] - 1
       IN reduceDependents(dependents, i + 1,
                           [deg EXCEPT ![depId] = newDegree],
                           IF newDegree = 0 THEN Append(q, depId) ELSE q)

\* one iteration of the while loop
kahnStep(graph, st) ==
  LET nodeId == Head(st.queue)
      r == reduceDependents(graph.nodes[nodeId].dependentPlanIds, 1,
                            st.inDegree, Tail(st.queue))
  IN [inDegree |-> r.inDegree, queue |-> r.queue,
      sortedPlanIds |-> Append(st.sortedPlanIds, nodeId)]

RECURSIVE kahnLoop(_, _)
kahnLoop(graph, st) ==
  IF st.queue = <<>> THEN st.sortedPlanIds ELSE kahnLoop(graph, kahnStep(graph, st))

topologicalSort(graph) ==
  LET cycleResult == detectCycle(graph) IN
  IF cycleResult.hasCycle
  THEN [sortedPlanIds |-> <<>>, hasCycle |-> TRUE, cycleNodes |-> cycleResult.cycleNodes]
  ELSE [sortedPlanIds |-> kahnLoop(graph, [inDegree |-> initialInDegree(graph),
                                           queue |-> initialQueue(graph),
                                           sortedPlanIds |-> <<>>]),
        hasCycle |-> FALSE, cycleNodes |-> <<>>]

getExecutionOrder(stackPlans) == topologicalSort(StackGraph(stackPlans))

(***************************************************************************)
(* The stack record and the status record.                                 *)
(* A file that does not exist is a record with exists = FALSE.             *)
(***************************************************************************)
\* A time stamp (new Date().toISOString()) is modelled as the one value Now: the
\* model tells a time stamp from null, not two time stamps from one another.
Now == "time"

\* the plan store with no plan file
NoPlans == [id \in PlanIds |-> NULL]

NoStack == [exists |-> FALSE, plans |-> <<>>, rootPlanIds |-> <<>>]

NoStatusFile ==
  [exists |-> FALSE, planStatuses |-> <<>>, lastRunAt |-> NULL, isRunning |-> FALSE]

planIdsOf(plans) == [i \in 1..Len(plans) |-> plans[i].planId]

PendingStatus ==
  [executionStatus |-> "pending", lastExecutedAt |-> NULL,
   executionDurationMs |-> NULL, errorMessage |-> NULL, exitCode |-> NULL]

createDefaultStatus(planIds) ==
  [exists |-> TRUE,
   planStatuses |-> [id \in Range(planIds) |-> PendingStatus],
   lastRunAt |-> NULL,
   isRunning |-> FALSE]

\* loadStackStatus returning the stored record as it is
loadStackStatusAsStored(file, planIds) ==
  IF file.exists THEN file ELSE createDefaultStatus(planIds)

\* the stored record with an entry added for every plan id that has none, or the
\* default record when the file cannot be read
loadStackStatus(file, planIds) ==
  IF file.exists
  THEN [file EXCEPT !.planStatuses =
          [id \in DOMAIN file.planStatuses \cup Range(planIds) |->
             IF id \in DOMAIN file.planStatuses THEN file.planStatuses[id]
             ELSE PendingStatus]]
  ELSE createDefaultStatus(planIds)

\* updatePlanStatus writing into a fresh record instead of the one it loaded
updatePlanStatusFromDefault(file, planIds, planId, executionStatus, errorMessage, exitCode, executionDurationMs, now) ==
  LET status == createDefaultStatus(planIds)
      planStatus == [executionStatus |-> executionStatus,
                     lastExecutedAt |-> Some(now),
                     executionDurationMs |-> executionDurationMs,
                     errorMessage |-> errorMessage,
                     exitCode |-> exitCode]
  IN [status EXCEPT
        !.planStatuses = [id \in DOMAIN status.planStatuses \cup {planId} |->
                            IF id = planId THEN planStatus ELSE status.planStatuses[id]],
        !.lastRunAt = Some(now),
        !.isRunning = loadStackStatus(file, planIds).isRunning]

\* what updatePlanStatus saves; absent optional arguments are NULL
updatePlanStatus(file, planIds, planId, executionStatus, errorMessage, exitCode, executionDurationMs, now) ==
  LET status == loadStackStatus(file, planIds)
      planStatus == [executionStatus |-> executionStatus,
                     lastExecutedAt |-> Some(now),
                     executionDurationMs |-> executionDurationMs,
                     errorMessage |-> errorMessage,
                     exitCode |-> exitCode]
  IN [status EXCEPT
        !.planStatuses = [id \in DOMAIN status.planStatuses \cup {planId} |->
                            IF id = planId THEN planStatus ELSE status.planStatuses[id]],
        !.lastRunAt = Some(now)]

\* setStackRunning keeping lastRunAt also when the flag is set
setStackRunningNoFlag(file, planIds, isRunning, now) ==
  LET status == loadStackStatus(file, planIds)
  IN IF isRunning THEN [status EXCEPT !.lastRunAt = Some(now)] ELSE status

\* what setStackRunning saves
setStackRunning(file, planIds, isRunning, now) ==
  LET status == [loadStackStatus(file, planIds) EXCEPT !.isRunning = isRunning]
  IN IF isRunning THEN [status EXCEPT !.lastRunAt = Some(now)] ELSE status

\* resetStackStatus keeping the entries of completed plans and the run flag
resetStackStatusKeeping(file, planIds) ==
  LET status == loadStackStatus(file, planIds)
  IN [status EXCEPT
        !.planStatuses = [id \in DOMAIN status.planStatuses |->
                            IF status.planStatuses[id].executionStatus = "completed"
                            THEN status.planStatuses[id] ELSE PendingStatus],
        !.lastRunAt = NULL]

\* what resetStackStatus saves; the record read before plays no part
resetStackStatus(file, planIds) == createDefaultStatus(planIds)

\* updateStackPlanStatus: every plan of the record with this id takes the updates
updateStackPlanStatus(stk, planId, updates) ==
  [stk EXCEPT !.plans =
     [i \in 1..Len(stk.plans) |->
        IF stk.plans[i].planId = planId
        THEN [f \in DOMAIN stk.plans[i] |->
                IF f \in DOMAIN updates THEN updates[f] ELSE stk.plans[i][f]]
        ELSE stk.plans[i]]]

(***************************************************************************)
(* executePlan: the result of one worker invocation.  The outcome is the   *)
(* environment's: the plan file cannot be loaded, the process cannot be    *)
(* spawned, it exits with a code, or it is ended by a signal and closes    *)
(* with the code null.                                                     *)
(***************************************************************************)
WorkerOutcomes == {"notFound", "spawnError", "exit0", "exit1", "exit2", "signal"}

\* the outcomes met in the runs of a stack: executeStack reads the executionStatus
\* of a result only, one failing outcome stands for all
RunOutcomes == {"exit0", "exit1"}

SkippedMessage == "Skipped due to failed dependencies."

\* executePlan giving a result without a message
executePlanNoMessage(outcome) == [executionStatus |-> IF outcome = "exit0" THEN "completed" ELSE "failed", exitCode |-> Some(1), errorMessage |-> NULL, executionDurationMs |-> Some("measured")]

executePlan(outcome) ==
  CASE outcome = "notFound" ->
         [executionStatus |-> "failed", exitCode |-> Some(1),
          errorMessage |-> Some("Plan not found."), executionDurationMs |-> Some("zero")]
    [] outcome = "spawnError" ->
         [executionStatus |-> "failed", exitCode |-> Some(1),
          errorMessage |-> Some("spawn error"), executionDurationMs |-> Some("measured")]
    [] outcome = "exit0" ->
         [executionStatus |-> "completed", exitCode |-> Some(0),
          errorMessage |-> NULL, executionDurationMs |-> Some("measured")]
    [] outcome = "exit1" ->
         [executionStatus |-> "failed", exitCode |-> Some(1),
          errorMessage |-> Some("Process exited with code 1"),
          executionDurationMs |-> Some("measured")]
    [] outcome = "exit2" ->
         [executionStatus |-> "failed", exitCode |-> Some(2),
          errorMessage |-> Some("Process exited with code 2"),
          executionDurationMs |-> Some("measured")]
    [] outcome = "signal" ->
         [executionStatus |-> "failed", exitCode |-> NULL,
          errorMessage |-> Some("Process exited with code null"),
          executionDurationMs |-> Some("measured")]

(***************************************************************************)
(* Pieces of executeStack.                                                 *)
(***************************************************************************)
\* stack.plans.find((p) => p.planId === planId)
findPlan(plans, planId) == plans[indexOf(planIdsOf(plans), planId)]

\* the dependency check finding every dependency met
hasUnmetDependenciesNone(plans, planId, completed) == FALSE

\* the dependency check looking at the first dependency only
hasUnmetDependenciesFirstOnly(plans, planId, completed) ==
  LET deps == findPlan(plans, planId).dependsOnPlanIds
  IN deps # <<>> /\ deps[1] \notin completed

\* stackPlan?.dependsOnPlanIds.some((depId) => !completedPlanIds.has(depId))
hasUnmetDependencies(plans, planId, completed) ==
  \E k \in 1..Len(findPlan(plans, planId).dependsOnPlanIds) :
     findPlan(plans, planId).dependsOnPlanIds[k] \notin completed

\* the slice beginning after fromPlanId
sliceFromNext(sorted, from) ==
  IF from = NULL THEN sorted
  ELSE SubSeq(sorted, indexOf(sorted, from[1]) + 1, Len(sorted))

\* fromPlanId ? sortedPlanIds.slice(sortedPlanIds.indexOf(fromPlanId)) : sortedPlanIds
\* (slice(-1), for an id that is not in the list, is the last element)
sliceFrom(sorted, from) ==
  IF from = NULL THEN sorted
  ELSE IF includes(sorted, from[1])
       THEN SubSeq(sorted, indexOf(sorted, from[1]), Len(sorted))
       ELSE SubSeq(sorted, Len(sorted), Len(sorted))

\* the seed of completedPlanIds forgetting what an earlier run completed
seedCompletedNone(plans, status) == {}

\* the seed of completedPlanIds taking a failed plan for a completed one
seedCompletedWithFailed(plans, status) ==
  {id \in Range(planIdsOf(plans)) :
     status.planStatuses[id].executionStatus \in {"completed", "failed"}}

\* completedPlanIds as seeded from the status record
seedCompleted(plans, status) ==
  {id \in Range(planIdsOf(plans)) :
     status.planStatuses[id].executionStatus = "completed"}

\* the run command's guard never rejecting
alreadyRunningNever(file, planIds) == FALSE

\* currentStatus?.isRunning of the run command
alreadyRunning(file, planIds) == loadStackStatus(file, planIds).isRunning

(***************************************************************************)
(* Inputs: the plan lists of stacks.  Every dependsOn id is a plan of the  *)
(* list (buildDependencyGraph filters the references), a plan id may be    *)
(* listed more than once (createStack keeps repeated ids) and a reference  *)
(* may be repeated.                                                        *)
(***************************************************************************)
Listings == {l \in SeqsUpTo(PlanIds, MaxPlans) : l # <<>>}

\* the references of every plan, given as the sequence of all references made:
\* <<p, r>> says that plan p lists r next
RECURSIVE RefsOf(_, _)
RefsOf(edges, p) ==
  IF edges = <<>> THEN <<>>
  ELSE IF Head(edges)[1] = p
       THEN <<Head(edges)[2]>> \o RefsOf(Tail(edges), p)
       ELSE RefsOf(Tail(edges), p)

ReferencesOver(ids) ==
  {[p \in PlanIds |-> RefsOf(edges, p)] : edges \in SeqsUpTo(ids \X ids, MaxEdges)}

StackPlansOf(listing, refs) ==
  [i \in 1..Len(listing) |->
     [planId |-> listing[i],
      dependsOnPlanIds |-> SelectSeq(refs[listing[i]], LAMBDA r : r \in Range(listing))]]

\* no command in progress and none run yet
NoOptions == [reset |-> FALSE, from |-> NULL, dryRun |-> FALSE]

\* no stack command has been given
NoRequest == [command |-> "none", planIds |-> <<>>, autoResolveDependencies |-> FALSE]

\* the locals of an invocation that has not begun
IdleOther ==
  [pc |-> "idle", opts |-> NoOptions, runStack |-> <<>>, executionOrder |-> <<>>, idx |-> 0,
   completedPlanIds |-> {}, invoked |-> {}, results |-> <<>>, startStatus |-> NoStatusFile, lastOp |-> "none"]

IdleRun ==
  /\ pc = "idle"
  /\ opts = NoOptions
  /\ runStack = <<>>
  /\ executionOrder = <<>>
  /\ idx = 0
  /\ completedPlanIds = {}
  /\ invoked = {}
  /\ results = <<>>
  /\ startStatus = NoStatusFile
  /\ lastOp = "none"
  /\ otherRun = IdleOther
  /\ request = NoRequest
  /\ rpc = "idle"
  /\ rAllPlanIds = {}
  /\ rAllPlans = <<>>
  /\ rToResolve = <<>>

(***************************************************************************)
(* SortSpec: getExecutionOrder run step by step on every input.            *)
(***************************************************************************)
SortInit ==
  /\ \E ids \in SUBSET PlanIds :
        \E refs \in ReferencesOver(ids) :
           \E listing \in {l \in Listings : Range(l) = ids} :
              sortInput = StackPlansOf(listing, refs)
  /\ spc = "start"
  /\ inDegree = <<>>
  /\ queue = <<>>
  /\ sortedPlanIds = <<>>
  /\ sortResult = NULL
  /\ planStore = NoPlans
  /\ stack = NoStack
  /\ statusFile = NoStatusFile
  /\ IdleRun

\* the cycle check returning the plans that are not on the cycle as the order
SortCycleKeepingRest ==
  /\ spc = "start"
  /\ detectCycle(StackGraph(sortInput)).hasCycle
  /\ sortResult' = [sortedPlanIds |->
                       SelectSeq(StackGraph(sortInput).keys,
                                 LAMBDA id : id \notin Range(detectCycle(StackGraph(sortInput)).cycleNodes)),
                    hasCycle |-> TRUE,
                    cycleNodes |-> detectCycle(StackGraph(sortInput)).cycleNodes]
  /\ spc' = "done"
  /\ UNCHANGED <<sortInput, inDegree, queue, sortedPlanIds>>
  /\ UNCHANGED <<allStoreVars, runVars, histVars, sideVars>>

\* lines 412-419: the cycle check refuses the sort
SortCycle ==
  /\ spc = "start"
  /\ detectCycle(StackGraph(sortInput)).hasCycle
  /\ sortResult' = [sortedPlanIds |-> <<>>, hasCycle |-> TRUE,
                    cycleNodes |-> detectCycle(StackGraph(sortInput)).cycleNodes]
  /\ spc' = "done"
  /\ UNCHANGED <<sortInput, inDegree, queue, sortedPlanIds>>
  /\ UNCHANGED <<allStoreVars, runVars, histVars, sideVars>>

\* lines 421-444: in-degrees and the first ready queue
SortSeed ==
  /\ spc = "start"
  /\ ~detectCycle(StackGraph(sortInput)).hasCycle
  /\ inDegree' = initialInDegree(StackGraph(sortInput))
  /\ queue' = initialQueue(StackGraph(sortInput))
  /\ sortedPlanIds' = <<>>
  /\ spc' = "loop"
  /\ UNCHANGED <<sortInput, sortResult>>
  /\ UNCHANGED <<allStoreVars, runVars, histVars, sideVars>>

\* lines 447-466: one iteration of the while loop
SortDequeue ==
  /\ spc = "loop"
  /\ queue # <<>>
  /\ LET st == kahnStep(StackGraph(sortInput),
                        [inDegree |-> inDegree, queue |-> queue,
                         sortedPlanIds |-> sortedPlanIds])
     IN /\ inDegree' = st.inDegree
        /\ queue' = st.queue
        /\ sortedPlanIds' = st.sortedPlanIds
  /\ UNCHANGED <<sortInput, spc, sortResult>>
  /\ UNCHANGED <<allStoreVars, runVars, histVars, sideVars>>

\* lines 468-471
SortReturn ==
  /\ spc = "loop"
  /\ queue = <<>>
  /\ sortResult' = [sortedPlanIds |-> sortedPlanIds, hasCycle |-> FALSE, cycleNodes |-> <<>>]
  /\ spc' = "done"
  /\ UNCHANGED <<sortInput, inDegree, queue, sortedPlanIds>>
  /\ UNCHANGED <<allStoreVars, runVars, histVars, sideVars>>

SortNext == SortCycle \/ SortSeed \/ SortDequeue \/ SortReturn

SortSpec == SortInit /\ [][SortNext]_vars

(***************************************************************************)
(* Properties of the sort.                                                 *)
(***************************************************************************)
\* the edges of the input: <<x, y>> when y is in the dependsOn list of x
Edges(stackPlans) ==
  {e \in PlanIds \X PlanIds :
     \E i \in 1..Len(stackPlans) :
        /\ stackPlans[i].planId = e[1]
        /\ includes(stackPlans[i].dependsOnPlanIds, e[2])}

RECURSIVE TransitiveClosure(_)
TransitiveClosure(R) ==
  LET R2 == R \cup {e \in PlanIds \X PlanIds :
                      \E b \in PlanIds : <<e[1], b>> \in R /\ <<b, e[2]>> \in R}
  IN IF R2 = R THEN R ELSE TransitiveClosure(R2)

\* the graph has a dependency cycle: some task reaches itself along edges
Cyclic(stackPlans) ==
  \E n \in PlanIds : <<n, n>> \in TransitiveClosure(Edges(stackPlans))

TaskIds(stackPlans) == {stackPlans[i].planId : i \in 1..Len(stackPlans)}

DependsOn(stackPlans, id) == {e[2] : e \in {f \in Edges(stackPlans) : f[1] = id}}

\* C1: for an acyclic graph the sort returns hasCycle = false and an order that
\* holds every task, each after all of its dependencies.
C1_ValidLinearization ==
  (spc = "done" /\ ~Cyclic(sortInput)) =>
     /\ sortResult.hasCycle = FALSE
     /\ \A t \in TaskIds(sortInput) :
          /\ includes(sortResult.sortedPlanIds, t)
          /\ \A d \in DependsOn(sortInput, t) :
               /\ includes(sortResult.sortedPlanIds, d)
               /\ indexOf(sortResult.sortedPlanIds, d) < indexOf(sortResult.sortedPlanIds, t)

\* a sort of an acyclic graph with a chain of three tasks has returned
C1_Witness ==
  /\ spc = "done"
  /\ ~Cyclic(sortInput)
  /\ \E a, b, c \in TaskIds(sortInput) :
        /\ a # b /\ b # c /\ a # c
        /\ b \in DependsOn(sortInput, a)
        /\ c \in DependsOn(sortInput, b)
        /\ sortInput[1].planId = a

\* C6: detectCycle reports a cycle exactly for the graphs that have one, for
\* every listing order of the plans.
C6_CycleDetected ==
  spc = "done" => (sortResult.hasCycle <=> Cyclic(sortInput))

\* a cycle was reported that the first listed plan is not part of and does not reach
C6_Witness ==
  /\ spc = "done"
  /\ sortResult.hasCycle
  /\ Len(sortInput) = 3
  /\ \A n \in PlanIds :
        <<sortInput[1].planId, n>> \notin TransitiveClosure(Edges(sortInput))

\* C7: a reported cycle path starts and ends with the same id and every
\* consecutive pair of it is an edge of the graph.
C7_CyclePathInGraph ==
  (spc = "done" /\ sortResult.hasCycle) =>
     LET c == sortResult.cycleNodes IN
       /\ Len(c) >= 2
       /\ c[1] = c[Len(c)]
       /\ \A i \in 1..(Len(c) - 1) : <<c[i], c[i + 1]>> \in Edges(sortInput)

\* a cycle was reported that the search entered from a task outside the cycle
C7_Witness ==
  /\ spc = "done"
  /\ sortResult.hasCycle
  /\ Len(sortResult.cycleNodes) = 3
  /\ sortInput[1].planId \notin Range(sortResult.cycleNodes)
  /\ sortInput[1].dependsOnPlanIds # <<>>

Min(S) == CHOOSE x \in S : \A y \in S : x <= y

\* C8: whenever nodes are ready the node emitted next is the ready node with
\* the smallest id.
C8_LexTieBreak ==
  (spc = "loop" /\ queue # <<>>) => Head(queue) = Min(Range(queue))

SeqPerms(s) ==
  {[i \in 1..Len(s) |-> s[p[i]]] : p \in Permutations(1..Len(s))}

\* C9: the order returned does not depend on the order the plans are listed in.
C9_ListingIndependent ==
  (spc = "done" /\ ~sortResult.hasCycle) =>
     \A other \in SeqPerms(sortInput) :
        getExecutionOrder(other).sortedPlanIds = sortResult.sortedPlanIds

(***************************************************************************)
(* The run command and executeStack.                                       *)
(***************************************************************************)
MaxRunPlans == 3   \* longest plan list of a stack that is run
MaxRunEdges == 2   \* most dependency references in a stack that is run

\* the plan store holding a file for each of ids, with the references the
\* sequence of edges gives: <<p, r>> says that plan p lists r next
StoreOf(ids, edges) ==
  [id \in PlanIds |-> IF id \in ids THEN Some(RefsOf(edges, id)) ELSE NULL]

\* plan.references of a plan that loadPlanById found
references(store, id) == store[id][1]

\* plans.filter((plan) => plan !== null) over the plans loadPlanById returned;
\* a plan is held by its id
validPlansOf(store, planIds) == SelectSeq(planIds, LAMBDA id : store[id] # NULL)

\* resolveAllDependencies: the while loop popping toResolve from its end
RECURSIVE resolveLoop(_, _, _)
resolveLoop(store, allPlans, toResolve) ==
  IF toResolve = <<>> THEN allPlans
  ELSE LET refId == toResolve[Len(toResolve)]
           rest == SubSeq(toResolve, 1, Len(toResolve) - 1)
       IN IF includes(allPlans, refId) \/ store[refId] = NULL
          THEN resolveLoop(store, allPlans, rest)
          ELSE resolveLoop(store, Append(allPlans, refId),
                           rest \o references(store, refId))

resolveAllDependencies(store, plans) ==
  resolveLoop(store, plans,
              Flatten([i \in 1..Len(plans) |-> references(store, plans[i])]))

\* buildDependencyGraph leaving the reverse edges out
buildDependencyGraphOneWay(store, plans) ==
  LET graph == StackGraph([i \in 1..Len(plans) |->
                             [planId |-> plans[i],
                              dependsOnPlanIds |->
                                SelectSeq(references(store, plans[i]),
                                          LAMBDA r : r \in Range(plans))]])
  IN [graph EXCEPT !.nodes = [id \in DOMAIN graph.nodes |->
                                [graph.nodes[id] EXCEPT !.dependentPlanIds = <<>>]]]

\* buildDependencyGraph keeping every declared reference
buildDependencyGraphUnfiltered(store, plans) ==
  StackGraph([i \in 1..Len(plans) |->
                [planId |-> plans[i], dependsOnPlanIds |-> references(store, plans[i])]])

\* buildDependencyGraph over plans with availablePlanIds the ids of the plans
buildDependencyGraph(store, plans) ==
  StackGraph([i \in 1..Len(plans) |->
                [planId |-> plans[i],
                 dependsOnPlanIds |->
                   SelectSeq(references(store, plans[i]),
                             LAMBDA r : r \in Range(plans))]])

\* findRootPlans: the ids, in graph order, of the nodes with no dependency
findRootPlans(graph) ==
  SelectSeq(graph.keys, LAMBDA id : Len(graph.nodes[id].dependsOnPlanIds) = 0)

\* plansToStackPlans: the plans of a stack just built
plansToStackPlans(store, plans) ==
  LET graph == buildDependencyGraph(store, plans)
  IN [i \in 1..Len(plans) |->
        [planId |-> plans[i],
         dependsOnPlanIds |-> graph.nodes[plans[i]].dependsOnPlanIds,
         executionStatus |-> "pending",
         lastExecutedAt |-> NULL,
         executionDurationMs |-> NULL]]

\* createStack going on with no valid plan and saving an empty stack
createStackWithoutCheck(store, planIds, autoResolveDependencies) ==
  LET validPlans == validPlansOf(store, planIds)
      finalPlans == IF autoResolveDependencies
                    THEN resolveAllDependencies(store, validPlans)
                    ELSE validPlans
      computedRoots == findRootPlans(buildDependencyGraph(store, finalPlans))
  IN Some([exists |-> TRUE,
           plans |-> plansToStackPlans(store, finalPlans),
           rootPlanIds |-> IF Len(computedRoots) > 0 THEN computedRoots
                           ELSE validPlans])

\* createStack: the record saved, or NULL when it throws for want of a valid plan
createStack(store, planIds, autoResolveDependencies) ==
  LET validPlans == validPlansOf(store, planIds)
      finalPlans == IF autoResolveDependencies
                    THEN resolveAllDependencies(store, validPlans)
                    ELSE validPlans
      computedRoots == findRootPlans(buildDependencyGraph(store, finalPlans))
  IN IF validPlans = <<>> THEN NULL
     ELSE Some([exists |-> TRUE,
                plans |-> plansToStackPlans(store, finalPlans),
                rootPlanIds |-> IF Len(computedRoots) > 0 THEN computedRoots
                                ELSE validPlans])

\* addPlansToStack: the record saved (the record found, when nothing is added)
addPlansToStack(store, existingStack, planIds, autoResolveDependencies) ==
  LET existingPlanIds == Range(planIdsOf(existingStack.plans))
      newPlanIds == SelectSeq(planIds, LAMBDA id : id \notin existingPlanIds)
      validNewPlans == validPlansOf(store, newPlanIds)
      allValidPlans == validPlansOf(store, planIdsOf(existingStack.plans)) \o validNewPlans
      finalPlans == IF autoResolveDependencies
                    THEN resolveAllDependencies(store, allValidPlans)
                    ELSE allValidPlans
      stackPlans == plansToStackPlans(store, finalPlans)
      preserved(sp) ==
        IF sp.planId \in existingPlanIds
        THEN LET existingPlan == findPlan(existingStack.plans, sp.planId)
             IN [sp EXCEPT !.executionStatus = existingPlan.executionStatus,
                           !.lastExecutedAt = existingPlan.lastExecutedAt,
                           !.executionDurationMs = existingPlan.executionDurationMs]
        ELSE sp
  IN IF Len(newPlanIds) = 0 \/ Len(validNewPlans) = 0 THEN existingStack
     ELSE [exists |-> TRUE,
           plans |-> [i \in 1..Len(stackPlans) |-> preserved(stackPlans[i])],
           rootPlanIds |-> findRootPlans(buildDependencyGraph(store, finalPlans))]

\* The plan lists of the stacks that are run.  The execution engine never
\* compares two ids for order, so a run of a stack and the run of the stack with
\* its ids renamed differ by the renaming only: the lists are taken up to renaming,
\* each id being first listed after all smaller ones.
RunListings ==
  {l \in SeqsUpTo(PlanIds, MaxRunPlans) :
     /\ l # <<>>
     /\ \A i \in 1..Len(l) : \A id \in 1..(l[i] - 1) : \E j \in 1..(i - 1) : l[j] = id}

RunOptions ==
  [reset : BOOLEAN, from : {NULL} \cup {Some(id) : id \in PlanIds}, dryRun : BOOLEAN]

\* a stack just created, without resolving references, from plan files that
\* refer to one another only; nothing has run yet
CreatedStack(maxPlans, maxEdges) ==
  /\ sortInput = <<>>
  /\ spc = "off"
  /\ inDegree = <<>>
  /\ queue = <<>>
  /\ sortedPlanIds = <<>>
  /\ sortResult = NULL
  /\ \E listing \in {l \in RunListings : Len(l) <= maxPlans} :
        \E edges \in SeqsUpTo(Range(listing) \X Range(listing), maxEdges) :
           /\ planStore = StoreOf(Range(listing), edges)
           /\ stack = createStack(planStore, listing, FALSE)[1]
  /\ statusFile = NoStatusFile
  /\ IdleRun

Init == CreatedStack(MaxRunPlans, MaxRunEdges)

\* the command ends without calling executeStack
CommandEnds(how, file) ==
  /\ statusFile' = file
  /\ stack' = stack
  /\ lastOp' = how
  /\ invoked' = {}
  /\ results' = <<>>
  /\ executionOrder' = <<>>
  /\ startStatus' = NoStatusFile
  /\ UNCHANGED <<pc, opts, runStack, idx, completedPlanIds>>

\* runCommand writing the flag in the same step as it checks it
RunCommandTakingFlag(options) ==
  /\ pc = "idle"
  /\ UNCHANGED <<sortVars, sideVars, planStore>>
  /\ LET file == statusFile IN
     IF ~stack.exists
     THEN CommandEnds("stackNotFound", file)
     ELSE IF alreadyRunning(file, planIdsOf(stack.plans))
     THEN CommandEnds("rejected", file)
     ELSE LET afterReset == IF options.reset
                            THEN resetStackStatus(file, planIdsOf(stack.plans))
                            ELSE file
              sorted == getExecutionOrder(stack.plans)
          IN IF sorted.hasCycle
             THEN CommandEnds("cycle", afterReset)
             ELSE IF options.from # NULL /\ ~includes(sorted.sortedPlanIds, options.from[1])
             THEN CommandEnds("fromNotFound", afterReset)
             ELSE IF options.dryRun
             THEN CommandEnds("dryRun", afterReset)
             ELSE /\ statusFile' = setStackRunning(afterReset, planIdsOf(stack.plans), TRUE, Now)
                  /\ stack' = stack
                  /\ pc' = "execute"
                  /\ opts' = options
                  /\ invoked' = {}
                  /\ results' = <<>>
                  /\ executionOrder' = <<>>
                  /\ startStatus' = NoStatusFile
                  /\ lastOp' = "running"
                  /\ UNCHANGED <<runStack, idx, completedPlanIds>>

\* runCommand, init.ts lines 45-107, up to the call of executeStack
RunCommand(options) ==
  /\ pc = "idle"
  /\ UNCHANGED <<sortVars, sideVars, planStore>>
  /\ LET file == statusFile IN
     IF ~stack.exists
     THEN CommandEnds("stackNotFound", file)
     ELSE IF alreadyRunning(file, planIdsOf(stack.plans))
     THEN CommandEnds("rejected", file)
     ELSE LET afterReset == IF options.reset
                            THEN resetStackStatus(file, planIdsOf(stack.plans))
                            ELSE file
              sorted == getExecutionOrder(stack.plans)
          IN IF sorted.hasCycle
             THEN CommandEnds("cycle", afterReset)
             ELSE IF options.from # NULL /\ ~includes(sorted.sortedPlanIds, options.from[1])
             THEN CommandEnds("fromNotFound", afterReset)
             ELSE IF options.dryRun
             THEN CommandEnds("dryRun", afterReset)
             ELSE /\ statusFile' = afterReset
                  /\ stack' = stack
                  /\ pc' = "execute"
                  /\ opts' = options
                  /\ invoked' = {}
                  /\ results' = <<>>
                  /\ executionOrder' = <<>>
                  /\ startStatus' = NoStatusFile
                  /\ lastOp' = "running"
                  /\ UNCHANGED <<runStack, idx, completedPlanIds>>

\* executeStack is left: its variables are gone
RunOver(how) ==
  /\ pc' = "idle"
  /\ lastOp' = how
  /\ opts' = NoOptions
  /\ runStack' = <<>>
  /\ executionOrder' = <<>>
  /\ idx' = 0
  /\ completedPlanIds' = {}
  /\ invoked' = {}
  /\ results' = <<>>
  /\ startStatus' = NoStatusFile

\* executeStack, executor.ts lines 135-176
ExecuteStackBegin ==
  /\ pc = "execute"
  /\ UNCHANGED <<sortVars, sideVars, planStore>>
  /\ IF ~stack.exists
     THEN \* throw new Error(`Stack '${stackName}' not found.`)
          /\ RunOver("error")
          /\ UNCHANGED storeVars
     ELSE LET sorted == getExecutionOrder(stack.plans)
              planIds == planIdsOf(stack.plans)
              running == setStackRunning(statusFile, planIds, TRUE, Now)
          IN IF sorted.hasCycle
             THEN \* throw new Error(`Dependency cycle detected: ...`)
                  /\ RunOver("error")
                  /\ UNCHANGED storeVars
             ELSE /\ runStack' = stack.plans
                  /\ executionOrder' = sliceFrom(sorted.sortedPlanIds, opts.from)
                  /\ statusFile' = running
                  /\ startStatus' = loadStackStatus(running, planIds)
                  /\ completedPlanIds' = seedCompleted(stack.plans,
                                                       loadStackStatus(running, planIds))
                  /\ idx' = 1
                  /\ pc' = "loop"
                  /\ UNCHANGED <<stack, opts, invoked, results, lastOp>>

\* the run stops on an error thrown by updateStackPlanStatus: the status record
\* is written, the stack record is not found
ThrowsAfter(file) ==
  /\ statusFile' = file
  /\ RunOver("error")
  /\ UNCHANGED stack

\* the loop reporting a result for a plan that is already completed
LoopContinueReporting ==
  /\ pc = "loop"
  /\ idx <= Len(executionOrder)
  /\ executionOrder[idx] \in completedPlanIds
  /\ idx' = idx + 1
  /\ results' = Append(results, <<executionOrder[idx], "completed">>)
  /\ UNCHANGED <<sortVars, sideVars, allStoreVars, invoked, startStatus, lastOp, pc, opts,
                 runStack, executionOrder, completedPlanIds>>

\* lines 178-182: the plan is already completed
LoopContinue ==
  /\ pc = "loop"
  /\ idx <= Len(executionOrder)
  /\ executionOrder[idx] \in completedPlanIds
  /\ idx' = idx + 1
  /\ UNCHANGED <<sortVars, sideVars, allStoreVars, histVars, pc, opts, runStack, executionOrder,
                 completedPlanIds>>

\* the loop marking a plan with an unmet dependency as failed
LoopSkipMarksFailed ==
  /\ pc = "loop"
  /\ idx <= Len(executionOrder)
  /\ executionOrder[idx] \notin completedPlanIds
  /\ hasUnmetDependencies(runStack, executionOrder[idx], completedPlanIds)
  /\ UNCHANGED <<sortVars, sideVars, planStore>>
  /\ LET planId == executionOrder[idx]
         written == updatePlanStatus(statusFile, planIdsOf(runStack), planId, "failed",
                                     Some(SkippedMessage), NULL, NULL, Now)
     IN IF ~stack.exists
        THEN ThrowsAfter(written)
        ELSE /\ statusFile' = written
             /\ stack' = updateStackPlanStatus(stack, planId,
                                               [executionStatus |-> "failed"])
             /\ results' = Append(results, <<planId, "failed">>)
             /\ idx' = idx + 1
             /\ UNCHANGED <<invoked, startStatus, lastOp, pc, opts, runStack, executionOrder,
                            completedPlanIds>>

\* lines 184-215: a dependency is not completed
LoopSkip ==
  /\ pc = "loop"
  /\ idx <= Len(executionOrder)
  /\ executionOrder[idx] \notin completedPlanIds
  /\ hasUnmetDependencies(runStack, executionOrder[idx], completedPlanIds)
  /\ UNCHANGED <<sortVars, sideVars, planStore>>
  /\ LET planId == executionOrder[idx]
         written == updatePlanStatus(statusFile, planIdsOf(runStack), planId, "skipped",
                                     Some(SkippedMessage), NULL, NULL, Now)
     IN IF ~stack.exists
        THEN ThrowsAfter(written)
        ELSE /\ statusFile' = written
             /\ stack' = updateStackPlanStatus(stack, planId,
                                               [executionStatus |-> "skipped"])
             /\ results' = Append(results, <<planId, "skipped">>)
             /\ idx' = idx + 1
             /\ UNCHANGED <<invoked, startStatus, lastOp, pc, opts, runStack, executionOrder,
                            completedPlanIds>>

\* the loop calling executePlan without awaiting its result: the plan is marked
\* running and the loop goes on to the next plan
LoopStartNoAwait ==
  /\ pc = "loop"
  /\ idx <= Len(executionOrder)
  /\ executionOrder[idx] \notin completedPlanIds
  /\ ~hasUnmetDependencies(runStack, executionOrder[idx], completedPlanIds)
  /\ UNCHANGED <<sortVars, sideVars, planStore>>
  /\ LET planId == executionOrder[idx]
         written == updatePlanStatus(statusFile, planIdsOf(runStack), planId, "running",
                                     NULL, NULL, NULL, Now)
     IN IF ~stack.exists
        THEN ThrowsAfter(written)
        ELSE /\ statusFile' = written
             /\ stack' = updateStackPlanStatus(stack, planId,
                                               [executionStatus |-> "running"])
             /\ idx' = idx + 1
             /\ invoked' = invoked \cup {planId}
             /\ results' = results
             /\ UNCHANGED <<pc, opts, runStack, executionOrder, completedPlanIds,
                            startStatus, lastOp>>

\* lines 217-236: the plan is marked running and executePlan is called
LoopStart ==
  /\ pc = "loop"
  /\ idx <= Len(executionOrder)
  /\ executionOrder[idx] \notin completedPlanIds
  /\ ~hasUnmetDependencies(runStack, executionOrder[idx], completedPlanIds)
  /\ UNCHANGED <<sortVars, sideVars, planStore>>
  /\ LET planId == executionOrder[idx]
         written == updatePlanStatus(statusFile, planIdsOf(runStack), planId, "running",
                                     NULL, NULL, NULL, Now)
     IN IF ~stack.exists
        THEN ThrowsAfter(written)
        ELSE /\ statusFile' = written
             /\ stack' = updateStackPlanStatus(stack, planId,
                                               [executionStatus |-> "running"])
             /\ pc' = "worker"
             /\ invoked' = invoked \cup {planId}
             /\ results' = results
             /\ UNCHANGED <<opts, runStack, executionOrder, idx, completedPlanIds,
                            startStatus, lastOp>>

\* executeStack giving up on the first failed result: the error leaves the loop
WorkerReturnsAborting(outcome) ==
  /\ pc = "worker"
  /\ UNCHANGED <<sortVars, sideVars, planStore>>
  /\ LET planId == executionOrder[idx]
         result == executePlan(outcome)
         written == updatePlanStatus(statusFile, planIdsOf(runStack), planId,
                                     result.executionStatus, result.errorMessage,
                                     result.exitCode, result.executionDurationMs, Now)
     IN IF ~stack.exists \/ result.executionStatus = "failed"
        THEN /\ statusFile' = written
             /\ stack' = stack
             /\ pc' = "idle"
             /\ lastOp' = "error"
             /\ opts' = NoOptions
             /\ runStack' = <<>>
             /\ executionOrder' = <<>>
             /\ idx' = 0
             /\ completedPlanIds' = {}
             /\ invoked' = {}
             /\ results' = <<>>
             /\ startStatus' = NoStatusFile
        ELSE /\ statusFile' = written
             /\ stack' = updateStackPlanStatus(stack, planId,
                           [executionStatus |-> result.executionStatus,
                            lastExecutedAt |-> Some(Now),
                            executionDurationMs |-> result.executionDurationMs])
             /\ completedPlanIds' = completedPlanIds \cup {planId}
             /\ idx' = idx + 1
             /\ pc' = "loop"
             /\ results' = Append(results, <<planId, result.executionStatus>>)
             /\ UNCHANGED <<invoked, startStatus, lastOp, opts, runStack, executionOrder>>

\* lines 238-263: executePlan has returned
WorkerReturns(outcome) ==
  /\ pc = "worker"
  /\ UNCHANGED <<sortVars, sideVars, planStore>>
  /\ LET planId == executionOrder[idx]
         result == executePlan(outcome)
         written == updatePlanStatus(statusFile, planIdsOf(runStack), planId,
                                     result.executionStatus, result.errorMessage,
                                     result.exitCode, result.executionDurationMs, Now)
     IN IF ~stack.exists
        THEN ThrowsAfter(written)
        ELSE /\ statusFile' = written
             /\ stack' = updateStackPlanStatus(stack, planId,
                           [executionStatus |-> result.executionStatus,
                            lastExecutedAt |-> Some(Now),
                            executionDurationMs |-> result.executionDurationMs])
             /\ completedPlanIds' = IF result.executionStatus = "completed"
                                    THEN completedPlanIds \cup {planId}
                                    ELSE completedPlanIds
             /\ idx' = idx + 1
             /\ pc' = "loop"
             /\ results' = Append(results, <<planId, result.executionStatus>>)
             /\ UNCHANGED <<invoked, startStatus, lastOp, opts, runStack, executionOrder>>

\* lines 266-271: the order is exhausted
ExecuteStackEnd ==
  /\ pc = "loop"
  /\ idx > Len(executionOrder)
  /\ statusFile' = setStackRunning(statusFile, planIdsOf(runStack), FALSE, Now)
  /\ RunOver("finished")
  /\ UNCHANGED <<sortVars, sideVars, planStore, stack>>

\* the process hosting the run is killed; nothing is written
Interrupt ==
  /\ pc \in {"execute", "loop", "worker"}
  /\ RunOver("interrupted")
  /\ UNCHANGED <<sortVars, sideVars, allStoreVars>>

Next ==
  \/ \E options \in RunOptions : RunCommand(options)
  \/ ExecuteStackBegin
  \/ LoopContinue
  \/ LoopSkip
  \/ LoopStart
  \/ \E outcome \in RunOutcomes : WorkerReturns(outcome)
  \/ ExecuteStackEnd
  \/ Interrupt

Spec == Init /\ [][Next]_vars

(***************************************************************************)
(* FaultSpec: the stack is deleted, or its status reset, by another caller *)
(* while the run command is idle or under way.                             *)
(***************************************************************************)
\* deleteStack: the stack file is unlinked; the status file stays
DeleteStack ==
  /\ stack.exists
  /\ stack' = NoStack
  /\ UNCHANGED <<sortVars, sideVars, planStore, statusFile, runVars, histVars>>

\* resetStackStatus called with the plan ids of the stack, as the run command
\* calls it, by a caller that the guard of another run does not hold back
ResetCall ==
  /\ stack.exists
  /\ statusFile' = resetStackStatus(statusFile, planIdsOf(stack.plans))
  /\ UNCHANGED <<sortVars, sideVars, planStore, stack, runVars, histVars>>

FaultNext == Next \/ DeleteStack \/ ResetCall

MaxFaultPlans == 2   \* longest plan list of a stack in FaultSpec
MaxFaultEdges == 1   \* most dependency references of a stack in FaultSpec

FaultInit == CreatedStack(MaxFaultPlans, MaxFaultEdges)

FaultSpec == FaultInit /\ [][FaultNext]_vars

(***************************************************************************)
(* EditSpec: plans are added to the stack between and during runs.  The    *)
(* stack is created with or without resolving references, from plan files  *)
(* that may refer to plans left out of it.                                 *)
(***************************************************************************)
MaxEditPlans == 2    \* longest plan list given to createStack in EditSpec
MaxStoreEdges == 2   \* most references in the plan files of EditSpec

\* the add command on an existing stack
AddPlansToStack(planIds, autoResolveDependencies) ==
  /\ stack.exists
  /\ stack' = addPlansToStack(planStore, stack, planIds, autoResolveDependencies)
  /\ stack' # stack
  /\ UNCHANGED <<sortVars, sideVars, planStore, statusFile, runVars, histVars>>

EditInit ==
  /\ sortInput = <<>>
  /\ spc = "off"
  /\ inDegree = <<>>
  /\ queue = <<>>
  /\ sortedPlanIds = <<>>
  /\ sortResult = NULL
  /\ \E edges \in SeqsUpTo(PlanIds \X PlanIds, MaxStoreEdges) :
        planStore = StoreOf(PlanIds, edges)
  /\ \E listing \in {l \in RunListings : Len(l) <= MaxEditPlans} :
        \E autoResolveDependencies \in BOOLEAN :
           stack = createStack(planStore, listing, autoResolveDependencies)[1]
  /\ statusFile = NoStatusFile
  /\ IdleRun

\* the run command is given no option but reset, and no run is interrupted
EditOptions == {options \in RunOptions : options.from = NULL /\ ~options.dryRun}

EditNext ==
  \/ \E options \in EditOptions : RunCommand(options)
  \/ ExecuteStackBegin
  \/ LoopContinue
  \/ LoopSkip
  \/ LoopStart
  \/ \E outcome \in RunOutcomes : WorkerReturns(outcome)
  \/ ExecuteStackEnd
  \/ \E id \in PlanIds : \E autoResolveDependencies \in BOOLEAN :
        AddPlansToStack(<<id>>, autoResolveDependencies)

EditSpec == EditInit /\ [][EditNext]_vars

(***************************************************************************)
(* Properties of the run.                                                  *)
(***************************************************************************)
\* the persisted run flag, as a reader of the status file finds it
IsRunning(file) == file.exists /\ file.isRunning

\* the persisted execution status of a plan (pending when it has no entry)
StatusOf(file, id) ==
  IF file.exists /\ id \in DOMAIN file.planStatuses
  THEN file.planStatuses[id].executionStatus
  ELSE "pending"

\* the persisted entry of a plan
EntryOf(file, id) ==
  IF file.exists /\ id \in DOMAIN file.planStatuses
  THEN file.planStatuses[id]
  ELSE PendingStatus

\* the run has gone through the whole execution order
OrderExhausted == pc = "loop" /\ idx > Len(executionOrder)

\* the execution status a plan had when the turn of position k came: what the
\* run wrote for it when it was handled earlier, what the run found otherwise
StatusAtTurn(id, k) ==
  IF \E j \in 1..(k - 1) : executionOrder[j] = id
  THEN StatusOf(statusFile, id)
  ELSE StatusOf(startStatus, id)

\* the tasks whose worker invocation failed in this run
FailedInRun == {t \in invoked : StatusOf(statusFile, t) = "failed"}

\* position k of the execution order comes after the position of task a
LaterThan(k, a) == \E j \in 1..(k - 1) : executionOrder[j] = a

\* the task was passed by: persisted as skipped with the message of the unmet
\* dependency, its worker not invoked
EndsSkipped(t) ==
  /\ StatusOf(statusFile, t) = "skipped"
  /\ EntryOf(statusFile, t).errorMessage = Some("Skipped due to failed dependencies.")
  /\ t \notin invoked

\* the dependency edges that leave a task the run did not find completed
OpenEdges(stackPlans) ==
  {e \in Edges(stackPlans) : StatusOf(startStatus, e[1]) # "completed"}

\* C2 (as stated): when the run is through, every task later in the order than a
\* task whose invocation failed, depending on it directly or transitively and not
\* found completed, is persisted as skipped with the unmet-dependency message and
\* was not invoked.
C2_DependentsSkipped ==
  OrderExhausted =>
     \A a \in FailedInRun : \A k \in 1..Len(executionOrder) :
        LET t == executionOrder[k] IN
          ( /\ LaterThan(k, a)
            /\ <<t, a>> \in TransitiveClosure(Edges(runStack))
            /\ StatusOf(startStatus, t) # "completed" )
          => EndsSkipped(t)

\* C2: when the run is through, every task later in the order than a task whose
\* invocation failed, depending on it directly, or transitively through tasks none
\* of which the run found completed, and not found completed itself, is persisted
\* as skipped with the unmet-dependency message and was not invoked.
C2_OpenDependentsSkipped ==
  OrderExhausted =>
     \A a \in FailedInRun : \A k \in 1..Len(executionOrder) :
        LET t == executionOrder[k] IN
          ( /\ LaterThan(k, a)
            /\ <<t, a>> \in TransitiveClosure(OpenEdges(runStack)) )
          => EndsSkipped(t)

\* a run is through in which a task failed, a task depending on it was skipped
\* and a third task, depending on the failed one through the second only, too
C2_Witness ==
  /\ OrderExhausted
  /\ \E a \in FailedInRun : \E b, c \in Range(executionOrder) :
        /\ a # b /\ b # c /\ a # c
        /\ DependsOn(runStack, b) = {a}
        /\ DependsOn(runStack, c) = {b}
        /\ EndsSkipped(b)
        /\ EndsSkipped(c)

\* C3: the worker is not invoked for a task found completed, and it is invoked
\* for every task of the order found failed or skipped whose dependencies are all
\* completed when its turn comes.
C3_RerunResumes ==
  (pc \in {"loop", "worker"}) =>
     /\ \A t \in invoked : StatusOf(startStatus, t) # "completed"
     /\ \A k \in 1..(idx - 1) :
          LET t == executionOrder[k] IN
            ( /\ StatusOf(startStatus, t) \in {"failed", "skipped"}
              /\ \A d \in DependsOn(runStack, t) : StatusAtTurn(d, k) = "completed" )
            => t \in invoked

\* a rerun has passed over a completed task and invoked the worker for a task
\* found failed and for one found skipped
C3_Witness ==
  /\ OrderExhausted
  /\ \E a, b, c \in Range(executionOrder) :
        /\ StatusOf(startStatus, a) = "completed" /\ a \notin invoked
        /\ StatusOf(startStatus, b) = "failed" /\ b \in invoked
        /\ StatusOf(startStatus, c) = "skipped" /\ c \in invoked

\* a step of a run command that goes on to execute the stack
RunStep == pc # "idle" \/ pc' # "idle"

\* the persisted task statuses: the entries of the status record and the plans of
\* the stack record
TaskStatuses(file, stk) ==
  <<[id \in Range(planIdsOf(stk.plans)) |-> EntryOf(file, id)], stk.plans>>

TaskStatusChanged ==
  TaskStatuses(statusFile', stack') # TaskStatuses(statusFile, stack)

WorkerInvoked == invoked' # invoked /\ invoked' # {}

\* a run command met with the flag set does nothing
RejectedWhenRunning ==
  (pc = "idle" /\ stack.exists /\ IsRunning(statusFile)) =>
     \A options \in RunOptions :
        RunCommand(options) =>
           /\ pc' = "idle"
           /\ invoked' = {}
           /\ statusFile' = statusFile
           /\ stack' = stack

\* executeStack persists the flag as its first write
FlagSetAtStart ==
  (pc = "execute" /\ pc' = "loop") => (IsRunning(statusFile') /\ ~TaskStatusChanged)

\* C5: a run met with the flag set is rejected and does nothing;
\* otherwise the run persists the flag before it changes any task status or
\* invokes any worker.
C5_FlagBeforeAnyChange ==
  [][ /\ RejectedWhenRunning
      /\ FlagSetAtStart
      /\ (RunStep /\ (TaskStatusChanged \/ WorkerInvoked)) => IsRunning(statusFile)
    ]_vars

\* C4: after a run has finished, normally or on an error, the persisted flag is
\* false.
C4_FlagClearedAfterRun ==
  (pc = "idle" /\ lastOp \in {"finished", "error"}) => ~IsRunning(statusFile)

\* the status record is the default one for the plans of the stack
IsDefaultRecord(file, stk) ==
  /\ file.exists
  /\ \A id \in Range(planIdsOf(stk.plans)) :
        /\ id \in DOMAIN file.planStatuses
        /\ file.planStatuses[id].executionStatus = "pending"
        /\ file.planStatuses[id].lastExecutedAt = NULL
        /\ file.planStatuses[id].executionDurationMs = NULL
        /\ file.planStatuses[id].errorMessage = NULL
        /\ file.planStatuses[id].exitCode = NULL
  /\ file.lastRunAt = NULL
  /\ file.isRunning = FALSE

\* a step that resets the status record: the call by itself, or the run command
\* with the reset option once past its guard
ResetStep ==
  \/ ResetCall
  \/ /\ pc = "idle"
     /\ stack.exists
     /\ ~IsRunning(statusFile)
     /\ \E options \in RunOptions : options.reset /\ RunCommand(options)

\* C10: a reset leaves every task of the stack pending with its other fields
\* null, lastRunAt null and the flag false, whatever the record held before.
C10_ResetClearsAll ==
  [][ResetStep => IsDefaultRecord(statusFile', stack)]_vars

\* the status was reset while a run had the flag set and a task running: the run
\* waits for its worker, the flag is false and the task pending
C10_Witness ==
  /\ pc = "worker"
  /\ ~IsRunning(statusFile)
  /\ statusFile.exists
  /\ statusFile.lastRunAt = NULL
  /\ StatusOf(statusFile, executionOrder[idx]) = "pending"
  /\ \E id \in Range(executionOrder) : StatusOf(startStatus, id) = "completed"

(***************************************************************************)
(* Further properties of the run command.                                  *)
(***************************************************************************)
\* the run command, given these options, finds nothing but the guard to stop it
\* from executing the stack
Executable(options) ==
  /\ stack.exists
  /\ ~getExecutionOrder(stack.plans).hasCycle
  /\ options.from = NULL
  /\ ~options.dryRun

\* C11: the run command given the reset option resets every plan status to
\* pending and goes on to execute the stack, whatever the status record held
\* before, the flag set included.
C11_ResetThenRun ==
  [][ pc = "idle" =>
        \A options \in RunOptions :
           (options.reset /\ Executable(options) /\ RunCommand(options)) =>
              /\ pc' = "execute"
              /\ \A id \in Range(planIdsOf(stack.plans)) :
                    EntryOf(statusFile', id) = PendingStatus
    ]_vars

\* the references a plan file declares to plans of the given stack plans
DeclaredInStack(stackPlans, id) ==
  SelectSeq(references(planStore, id), LAMBDA r : r \in Range(planIdsOf(stackPlans)))

\* some plan of the stack plans declares a reference to an id that is none of them
DeclaresDangling(stackPlans, id) ==
  \E r \in Range(references(planStore, id)) : r \notin Range(planIdsOf(stackPlans))

\* C12: the stack record holds, for every plan, the declared references without
\* those to ids that are no task of the stack, and in a run a task not found
\* completed is invoked whenever the declared references that are tasks of the
\* stack are all completed at its turn: a reference to an id outside the stack
\* makes no difference to the task.
C12_DanglingReferenceDropped ==
  /\ stack.exists =>
       \A i \in 1..Len(stack.plans) :
          stack.plans[i].dependsOnPlanIds = DeclaredInStack(stack.plans, stack.plans[i].planId)
  /\ (pc \in {"loop", "worker"}) =>
       \A k \in 1..(idx - 1) :
          LET t == executionOrder[k] IN
            ( /\ StatusOf(startStatus, t) # "completed"
              /\ \A d \in Range(DeclaredInStack(runStack, t)) : StatusAtTurn(d, k) = "completed" )
            => t \in invoked

\* the worker is invoked for a task whose plan file refers to a plan that is no
\* task of the stack and to nothing else
C12_Witness ==
  /\ pc = "worker"
  /\ DeclaresDangling(runStack, executionOrder[idx])
  /\ DeclaredInStack(runStack, executionOrder[idx]) = <<>>
  /\ executionOrder[idx] \in invoked

\* the status record as a reader finds it: every task status, lastRunAt, isRunning
RecordRead(file, stk) == loadStackStatus(file, planIdsOf(stk.plans))

\* C13: a dry run invokes no worker and leaves the status record (every task
\* status, lastRunAt, isRunning) and the stack record unchanged.
C13_DryRunChangesNothing ==
  [][ (pc = "idle" /\ stack.exists) =>
        \A options \in RunOptions :
           (options.dryRun /\ RunCommand(options)) =>
              /\ pc' = "idle"
              /\ invoked' = {}
              /\ stack' = stack
              /\ RecordRead(statusFile', stack) = RecordRead(statusFile, stack)
    ]_vars

(***************************************************************************)
(* LiveSpec: runs that are left to go on.  The process is not killed: once  *)
(* the loop of executeStack is entered every step of it that can be taken  *)
(* is taken, and every worker returns.                                     *)
(***************************************************************************)
LoopSteps ==
  \/ LoopContinue
  \/ LoopSkip
  \/ LoopStart
  \/ \E outcome \in RunOutcomes : WorkerReturns(outcome)
  \/ ExecuteStackEnd

LiveNext ==
  \/ \E options \in RunOptions : RunCommand(options)
  \/ ExecuteStackBegin
  \/ LoopSteps

MaxLivePlans == 2   \* longest plan list of a stack in LiveSpec
MaxLiveEdges == 1   \* most dependency references of a stack in LiveSpec

LiveInit == CreatedStack(MaxLivePlans, MaxLiveEdges)

LiveSpec == LiveInit /\ [][LiveNext]_vars /\ WF_vars(LoopSteps)

Terminal == {"completed", "failed", "skipped"}

\* a task before position k failed in this run
FailedBefore(k) == \E a \in FailedInRun : LaterThan(k, a)

\* after a failure the tasks whose dependencies are all completed at their turn
\* are invoked all the same, and a run that is through leaves every task of its
\* order completed, failed or skipped
GoesOnAfterFailure ==
  /\ (pc \in {"loop", "worker"}) =>
       \A k \in 1..(idx - 1) :
          LET t == executionOrder[k] IN
            ( /\ FailedBefore(k)
              /\ StatusOf(startStatus, t) # "completed"
              /\ \A d \in DependsOn(runStack, t) : StatusAtTurn(d, k) = "completed" )
            => t \in invoked
  /\ (OrderExhausted /\ FailedInRun # {}) =>
       \A t \in Range(executionOrder) : StatusOf(statusFile, t) \in Terminal

\* C14: a failure does not abort the run: later tasks whose dependencies are all
\* completed are still invoked, every task of the order ends completed, failed
\* or skipped, and the run, its loop entered, comes to its end with the flag
\* cleared.
C14_FailureDoesNotAbort ==
  /\ []GoesOnAfterFailure
  /\ (pc \in {"loop", "worker"}) ~>
        (pc = "idle" /\ lastOp = "finished" /\ ~IsRunning(statusFile))

\* a run is through in which a task failed and a later task was invoked and
\* completed
C14_Witness ==
  /\ OrderExhausted
  /\ \E a \in FailedInRun : \E k \in 1..Len(executionOrder) :
        /\ LaterThan(k, a)
        /\ executionOrder[k] \in invoked
        /\ StatusOf(statusFile, executionOrder[k]) = "completed"

\* C15: while the worker runs for a task, the task persisted as running, every
\* dependency of the task in the stack is persisted as completed.
C15_StartsAfterDependencies ==
  pc = "worker" =>
     /\ StatusOf(statusFile, executionOrder[idx]) = "running"
     /\ \A d \in DependsOn(runStack, executionOrder[idx]) :
           /\ d \in Range(planIdsOf(runStack))
           /\ StatusOf(statusFile, d) = "completed"

\* the worker runs for a task with two dependencies, one completed by an earlier
\* run and one by this run
C15_Witness ==
  /\ pc = "worker"
  /\ \E d, e \in DependsOn(runStack, executionOrder[idx]) :
        /\ StatusOf(startStatus, d) = "completed"
        /\ StatusOf(startStatus, e) # "completed"
        /\ e \in invoked

\* the position of a plan in the order the sort gives for the stack of the run
SortPosition(id) == indexOf(getExecutionOrder(runStack).sortedPlanIds, id)

\* C16: within a run the only worker in progress is the one of the current
\* task: every task started before it stands earlier in the sort's order and has
\* its final status, completed or failed, persisted; between two workers no
\* task is persisted as running on account of this run.
C16_OneWorkerInSortOrder ==
  /\ pc = "worker" =>
        /\ executionOrder[idx] \in invoked
        /\ StatusOf(statusFile, executionOrder[idx]) = "running"
        /\ \A a \in invoked \ {executionOrder[idx]} :
              /\ SortPosition(a) < SortPosition(executionOrder[idx])
              /\ StatusOf(statusFile, a) \in {"completed", "failed"}
  /\ pc = "loop" =>
        \A a \in invoked :
           /\ \E k \in 1..(idx - 1) : executionOrder[k] = a
           /\ StatusOf(statusFile, a) \in {"completed", "failed"}

\* the worker runs for a task that depends on nothing, after the worker of an
\* earlier task that it does not depend on has failed
C16_Witness ==
  /\ pc = "worker"
  /\ DependsOn(runStack, executionOrder[idx]) = {}
  /\ \E a \in invoked : /\ a # executionOrder[idx]
                        /\ StatusOf(statusFile, a) = "failed"

(***************************************************************************)
(* OutcomeSpec: runs of small stacks under every outcome of the worker.    *)
(***************************************************************************)
MaxOutcomePlans == 2   \* longest plan list of a stack in OutcomeSpec
MaxOutcomeEdges == 1   \* most references in the plan files of OutcomeSpec

OutcomeInit == CreatedStack(MaxOutcomePlans, MaxOutcomeEdges)

OutcomeNext ==
  \/ \E options \in RunOptions : RunCommand(options)
  \/ ExecuteStackBegin
  \/ LoopContinue
  \/ LoopSkip
  \/ LoopStart
  \/ \E outcome \in WorkerOutcomes : WorkerReturns(outcome)
  \/ ExecuteStackEnd

OutcomeSpec == OutcomeInit /\ [][OutcomeNext]_vars

\* the outcomes in which the worker could not be invoked
InvocationErrors == {"notFound", "spawnError"}

\* what is to be persisted for an outcome of the worker
PersistedAs(entry, outcome) ==
  IF outcome = "exit0"
  THEN entry.executionStatus = "completed"
  ELSE entry.executionStatus = "failed" /\ entry.errorMessage # NULL

\* C17: when the worker returns, exit code 0 is persisted as completed, and
\* every other exit code, the code null, a spawn error and a plan that cannot be
\* loaded are persisted as failed with a message; the run goes on in its loop,
\* no error leaves it.
C17_OutcomePersisted ==
  [][ pc = "worker" => \A outcome \in WorkerOutcomes :
        WorkerReturns(outcome) =>
           /\ PersistedAs(EntryOf(statusFile', executionOrder[idx]), outcome)
           /\ findPlan(stack'.plans, executionOrder[idx]).executionStatus
                 = EntryOf(statusFile', executionOrder[idx]).executionStatus
           /\ pc' = "loop"
           /\ lastOp' = lastOp ]_vars

\* a plan that could not be loaded is persisted as failed with its message and
\* the loop is at the next plan
C17_Witness ==
  /\ pc = "loop"
  /\ idx > 1
  /\ idx <= Len(executionOrder)
  /\ executionOrder[idx - 1] \in invoked
  /\ EntryOf(statusFile, executionOrder[idx - 1]).executionStatus = "failed"
  /\ EntryOf(statusFile, executionOrder[idx - 1]).errorMessage = Some("Plan not found.")

(***************************************************************************)
(* The transitions of a task's persisted status.                           *)
(***************************************************************************)
\* the transitions stated for the engine
DeclaredTransitions ==
  {<<"pending", "running">>, <<"running", "completed">>, <<"running", "failed">>,
   <<"pending", "skipped">>}

\* the transitions of the engine counting the runs after the first: a task that
\* is not completed is attempted again or skipped again
EngineTransitions ==
  {<<from, "running">> : from \in {"pending", "failed", "skipped"}}
     \cup {<<from, "skipped">> : from \in {"pending", "running", "failed"}}
     \cup {<<"running", "completed">>, <<"running", "failed">>}

\* every step that changes the status of a task goes along one of the
\* transitions, or is a reset and leaves the task pending
ChangesAlong(transitions) ==
  \A id \in Range(planIdsOf(stack.plans)) :
     StatusOf(statusFile', id) # StatusOf(statusFile, id) =>
        \/ <<StatusOf(statusFile, id), StatusOf(statusFile', id)>> \in transitions
        \/ StatusOf(statusFile', id) = "pending" /\ ResetStep

\* C18 as stated: a status changes only along pending to running, running to
\* completed, running to failed and pending to skipped, or goes back to pending
\* by a reset.
C18_DeclaredTransitionsOnly == [][ChangesAlong(DeclaredTransitions)]_vars

\* C18: a status changes only from a status other than completed to running or
\* to skipped, from running to completed or to failed, or goes back to pending
\* by a reset; a completed task leaves that status only by a reset.
C18_EngineTransitionsOnly == [][ChangesAlong(EngineTransitions)]_vars

\* a run without reset has started the worker again for a task that an earlier
\* run left failed
C18_Witness ==
  /\ pc = "worker"
  /\ StatusOf(startStatus, executionOrder[idx]) = "failed"
  /\ StatusOf(statusFile, executionOrder[idx]) = "running"
  /\ ~opts.reset

\* the tasks of the run's stack persisted as completed when executeStack began
CompletedAtStart ==
  {id \in Range(planIdsOf(runStack)) : StatusOf(startStatus, id) = "completed"}

\* C19: while a run goes through its order, a task that was persisted as
\* completed when the run began has had no worker invoked and its status entry,
\* with all five fields, is the one the run found.
C19_CompletedLeftAlone ==
  pc \in {"loop", "worker"} =>
     \A id \in CompletedAtStart :
        /\ id \notin invoked
        /\ EntryOf(statusFile, id) = EntryOf(startStatus, id)

\* the loop has passed a task completed by an earlier run and has had a worker
\* return for another task since
C19_Witness ==
  /\ pc = "loop"
  /\ \E k \in 1..(idx - 1) : \E j \in (k + 1)..(idx - 1) :
        /\ executionOrder[k] \in CompletedAtStart
        /\ executionOrder[j] \in invoked

\* no task of the stack has another persisted status after the step
StatusesKept ==
  \A id \in Range(planIdsOf(stack.plans)) :
     StatusOf(statusFile', id) = StatusOf(statusFile, id)

\* C20: on a stack whose dependency graph has a cycle, the run command past its
\* guard ends with the cycle reported and its path given, and executeStack ends
\* with its error; neither invokes a worker nor changes the status of a task.
C20_CycleAbortsUntouched ==
  [][ (pc \in {"idle", "execute"} /\ stack.exists /\ Cyclic(stack.plans)) =>
        /\ (pc = "idle" /\ ~IsRunning(statusFile)) =>
              \A options \in RunOptions :
                 RunCommand(options) =>
                    /\ pc' = "idle"
                    /\ lastOp' = "cycle"
                    /\ getExecutionOrder(stack.plans).cycleNodes # <<>>
                    /\ invoked' = {}
                    /\ StatusesKept
        /\ (pc = "execute" /\ ExecuteStackBegin) =>
              /\ pc' = "idle"
              /\ lastOp' = "error"
              /\ invoked' = {}
              /\ StatusesKept ]_vars

(***************************************************************************)
(* Further properties of the sort.                                         *)
(***************************************************************************)
\* the only cycle of the graph is the reference of task a to itself
OnlySelfCycle(stackPlans, a) ==
  /\ <<a, a>> \in Edges(stackPlans)
  /\ \A n \in PlanIds : <<n, n>> \notin TransitiveClosure(Edges(stackPlans) \ {<<a, a>>})

\* C21: for a graph whose only cycle is one task listing itself, the sort
\* reports a cycle and the path is that task followed by itself.
C21_SelfReferenceIsCycle ==
  spc = "done" =>
     \A a \in PlanIds :
        OnlySelfCycle(sortInput, a) =>
           /\ sortResult.hasCycle
           /\ sortResult.cycleNodes = <<a, a>>

\* the cycle of a task listing itself was reported, the search having come to
\* the task from the first listed plan, which depends on it
C21_Witness ==
  /\ spc = "done"
  /\ sortResult.hasCycle
  /\ \E a \in PlanIds :
        /\ OnlySelfCycle(sortInput, a)
        /\ sortInput[1].planId # a
        /\ includes(sortInput[1].dependsOnPlanIds, a)

(***************************************************************************)
(* The flag after an interrupted run.                                      *)
(***************************************************************************)
\* C22: a run interrupted once it has set the flag leaves the flag persisted as
\* true with no run active, and from then on every run command is turned away:
\* the flag stays true, no run begins, no worker is invoked.
C22_FlagStuckAfterInterrupt ==
  [][ /\ (pc \in {"loop", "worker"} /\ Interrupt) =>
            (pc' = "idle" /\ IsRunning(statusFile'))
      /\ (pc = "idle" /\ IsRunning(statusFile)) =>
            (pc' = "idle" /\ IsRunning(statusFile') /\ invoked' = {}) ]_vars

\* after an interrupt a later run command was turned away, a task is left as running and
\* the flag is still true
C22_Witness ==
  /\ pc = "idle"
  /\ lastOp = "rejected"
  /\ IsRunning(statusFile)
  /\ \E id \in Range(planIdsOf(stack.plans)) : StatusOf(statusFile, id) = "running"

(***************************************************************************)
(* RaceSpec: two invocations of the run command on one stack.  Each is a   *)
(* process of its own with its own locals; the one taking steps has its    *)
(* locals in the run variables, the other one's are kept in otherRun, and  *)
(* Switch hands the turn over.  Both read and write the same records.      *)
(***************************************************************************)
MaxRacePlans == 2   \* longest plan list of a stack in RaceSpec
MaxRaceEdges == 1   \* most references in the plan files of RaceSpec

\* the other invocation takes the next steps
Switch ==
  /\ otherRun' = [pc |-> pc, opts |-> opts, runStack |-> runStack,
                  executionOrder |-> executionOrder, idx |-> idx,
                  completedPlanIds |-> completedPlanIds, invoked |-> invoked,
                  results |-> results,
                  startStatus |-> startStatus, lastOp |-> lastOp]
  /\ pc' = otherRun.pc
  /\ opts' = otherRun.opts
  /\ runStack' = otherRun.runStack
  /\ executionOrder' = otherRun.executionOrder
  /\ idx' = otherRun.idx
  /\ completedPlanIds' = otherRun.completedPlanIds
  /\ invoked' = otherRun.invoked
  /\ results' = otherRun.results
  /\ startStatus' = otherRun.startStatus
  /\ lastOp' = otherRun.lastOp
  /\ otherRun' # otherRun
  /\ UNCHANGED <<sortVars, allStoreVars, request, resolveVars>>

RaceInit == CreatedStack(MaxRacePlans, MaxRaceEdges)

RaceNext ==
  \/ \E options \in EditOptions : RunCommand(options)
  \/ ExecuteStackBegin
  \/ LoopContinue
  \/ LoopSkip
  \/ LoopStart
  \/ \E outcome \in RunOutcomes : WorkerReturns(outcome)
  \/ ExecuteStackEnd
  \/ Switch

RaceSpec == RaceInit /\ [][RaceNext]_vars

\* C23: a run command given while the other invocation stands between its
\* check of the flag and executeStack's write of it is not turned away: it
\* passes the guard and goes on to executeStack as well.
C23_GuardPassedInWindow ==
  [][ (pc = "idle" /\ otherRun.pc = "execute") =>
        \A options \in EditOptions : RunCommand(options) => pc' = "execute" ]_vars

\* both invocations have passed the guard and each has its worker running, for
\* the same task of the stack
C23_Witness ==
  /\ pc = "worker"
  /\ otherRun.pc = "worker"
  /\ executionOrder[idx] = otherRun.executionOrder[otherRun.idx]
  /\ IsRunning(statusFile)

(***************************************************************************)
(* ManageSpec: a stack is created, given more plans and relieved of plans, *)
(* over plan files some of which do not exist and which may refer to any   *)
(* plan id.                                                                *)
(***************************************************************************)
MaxManageEdges == 2   \* most references in the plan files of ManageSpec
MaxRequest == 2       \* longest list of plan ids given to a stack command

\* removePlansFromStack leaving the dependency lists of the remaining plans as
\* they were
removePlansFromStackKeepingDeps(store, existingStack, planIds) ==
  LET remainingPlans == SelectSeq(existingStack.plans, LAMBDA p : p.planId \notin Range(planIds))
      validPlans == validPlansOf(store, planIdsOf(remainingPlans))
  IN IF Len(remainingPlans) = 0 THEN NULL
     ELSE Some([exists |-> TRUE,
                plans |-> remainingPlans,
                rootPlanIds |-> findRootPlans(buildDependencyGraph(store, validPlans))])

\* removePlansFromStack: the record saved, or NULL when it throws because no
\* plan would be left
removePlansFromStack(store, existingStack, planIds) ==
  LET remainingPlans == SelectSeq(existingStack.plans, LAMBDA p : p.planId \notin Range(planIds))
      validPlans == validPlansOf(store, planIdsOf(remainingPlans))
      rootPlanIds == findRootPlans(buildDependencyGraph(store, validPlans))
  IN IF Len(remainingPlans) = 0 THEN NULL
     ELSE Some([exists |-> TRUE,
                plans |-> [i \in 1..Len(remainingPlans) |->
                             [remainingPlans[i] EXCEPT !.dependsOnPlanIds =
                                SelectSeq(@, LAMBDA depId : depId \notin Range(planIds))]],
                rootPlanIds |-> rootPlanIds])

\* the lists of plan ids createStack is called with
Requests == SeqsUpTo(PlanIds, MaxRequest) \ {<<>>}

\* the lists removePlansFromStack is called with: one id
RemoveRequests == {<<id>> : id \in PlanIds}

\* the lists addPlansToStack is called with: one id, given once or twice
AddRequests == {r \in Requests : \A i \in 1..Len(r) : r[i] = r[1]}

\* createStack called for a stack that does not exist yet (create.ts lines
\* 57-71); the record is saved unless createStack throws
CreateStack(planIds, autoResolveDependencies) ==
  /\ pc = "idle"
  /\ ~stack.exists
  /\ LET created == createStack(planStore, planIds, autoResolveDependencies)
     IN IF created = NULL
        THEN stack' = stack /\ lastOp' = "createError"
        ELSE stack' = created[1] /\ lastOp' = "created"
  /\ request' = [command |-> "create", planIds |-> planIds,
                 autoResolveDependencies |-> autoResolveDependencies]
  /\ UNCHANGED <<sortVars, otherRun, resolveVars, planStore, statusFile, runVars, invoked, results,
                 startStatus>>

\* addPlansToStack called for a stack that exists (create.ts lines 57-63)
AddPlans(planIds, autoResolveDependencies) ==
  /\ pc = "idle"
  /\ stack.exists
  /\ stack' = addPlansToStack(planStore, stack, planIds, autoResolveDependencies)
  /\ lastOp' = "added"
  /\ request' = [command |-> "add", planIds |-> planIds,
                 autoResolveDependencies |-> autoResolveDependencies]
  /\ UNCHANGED <<sortVars, otherRun, resolveVars, planStore, statusFile, runVars, invoked, results,
                 startStatus>>

\* removePlansFromStack called; it throws when there is no stack or no plan
\* would be left
RemovePlans(planIds) ==
  /\ pc = "idle"
  /\ IF ~stack.exists \/ removePlansFromStack(planStore, stack, planIds) = NULL
     THEN stack' = stack /\ lastOp' = "removeError"
     ELSE /\ stack' = removePlansFromStack(planStore, stack, planIds)[1]
          /\ lastOp' = "removed"
  /\ request' = [command |-> "remove", planIds |-> planIds, autoResolveDependencies |-> FALSE]
  /\ UNCHANGED <<sortVars, otherRun, resolveVars, planStore, statusFile, runVars, invoked, results,
                 startStatus>>

ManageInit ==
  /\ sortInput = <<>>
  /\ spc = "off"
  /\ inDegree = <<>>
  /\ queue = <<>>
  /\ sortedPlanIds = <<>>
  /\ sortResult = NULL
  /\ \E ids \in SUBSET PlanIds :
        \E edges \in SeqsUpTo(ids \X PlanIds, MaxManageEdges) :
           planStore = StoreOf(ids, edges)
  /\ stack = NoStack
  /\ statusFile = NoStatusFile
  /\ IdleRun

ManageNext ==
  \/ \E planIds \in Requests : \E autoResolveDependencies \in BOOLEAN :
        CreateStack(planIds, autoResolveDependencies)
  \/ \E planIds \in AddRequests : \E autoResolveDependencies \in BOOLEAN :
        AddPlans(planIds, autoResolveDependencies)
  \/ \E planIds \in RemoveRequests : RemovePlans(planIds)

ManageSpec == ManageInit /\ [][ManageNext]_vars

\* the ids of a list that loadPlanById finds a plan for
Loadable(planIds) == {id \in Range(planIds) : planStore[id] # NULL}

\* C24: createStack called with ids none of which can be loaded ends in its
\* error and the stack record is as it was, no stack where there was none;
\* called with at least one id that can be loaded it saves a stack that holds
\* every requested id that can be loaded and no id that cannot, without error.
C24_CreateNeedsOneValidPlan ==
  [][ (~stack.exists /\ request'.command = "create") =>
        \A planIds \in {request'.planIds} :
        \A autoResolveDependencies \in {request'.autoResolveDependencies} :
        CreateStack(planIds, autoResolveDependencies) =>
           IF Loadable(planIds) = {}
           THEN lastOp' = "createError" /\ stack' = stack
           ELSE /\ lastOp' = "created"
                /\ stack'.exists
                /\ Loadable(planIds) \subseteq Range(planIdsOf(stack'.plans))
                /\ \A id \in Range(planIdsOf(stack'.plans)) : planStore[id] # NULL
                /\ ~autoResolveDependencies =>
                      Range(planIdsOf(stack'.plans)) = Loadable(planIds) ]_vars

\* a stack was created from a request that named a plan that cannot be loaded
\* before one that can
C24_Witness ==
  /\ lastOp = "created"
  /\ request.command = "create"
  /\ Len(request.planIds) = 2
  /\ planStore[request.planIds[1]] = NULL
  /\ stack.exists
  /\ planIdsOf(stack.plans) = <<request.planIds[2]>>

\* the tasks of a stack that depend on no task of the stack
WithoutDependency(stackPlans) ==
  {id \in Range(planIdsOf(stackPlans)) : DependsOn(stackPlans, id) = {}}

\* C25: the rootPlanIds of the persisted stack are exactly the tasks of the
\* stack that have no dependency in the stack.
C25_RootsHaveNoDependency ==
  stack.exists => Range(stack.rootPlanIds) = WithoutDependency(stack.plans)

\* C26: the persisted stack lists no plan id twice.
C26_PlanIdsUnique ==
  stack.exists =>
     \A i, j \in 1..Len(stack.plans) :
        stack.plans[i].planId = stack.plans[j].planId => i = j

\* C27: for a graph with a cycle the sort is over at once, no plan is taken
\* into the order, and what it returns is the empty order with hasCycle true
\* and a cycle path.
C27_CycleGivesEmptyOrder ==
  Cyclic(sortInput) =>
     /\ spc \in {"start", "done"}
     /\ sortedPlanIds = <<>>
     /\ spc = "done" =>
           /\ sortResult.hasCycle
           /\ sortResult.sortedPlanIds = <<>>
           /\ Len(sortResult.cycleNodes) >= 2
           /\ getExecutionOrder(sortInput) = sortResult

\* a cycle was reported for a graph in which a plan depends on nothing and
\* could have been put into an order
C27_Witness ==
  /\ spc = "done"
  /\ sortResult.hasCycle
  /\ sortResult.sortedPlanIds = <<>>
  /\ \E t \in TaskIds(sortInput) :
        /\ DependsOn(sortInput, t) = {}
        /\ t \notin Range(sortResult.cycleNodes)

\* the graph has a node for each plan of the list and no other, every
\* dependsOn id is a plan of the list, and the reverse edges mirror the
\* forward edges
WellFormedGraph(graph, plans) ==
  /\ Range(graph.keys) = Range(plans)
  /\ DOMAIN graph.nodes = Range(plans)
  /\ \A a \in Range(plans) :
        Range(graph.nodes[a].dependsOnPlanIds) \subseteq Range(plans)
  /\ \A a, b \in Range(plans) :
        includes(graph.nodes[a].dependsOnPlanIds, b)
           <=> includes(graph.nodes[b].dependentPlanIds, a)

\* the plan lists buildDependencyGraph is given: the plans of the stack, and the
\* plans found for the last request
GraphInputs ==
  {validPlansOf(planStore, request.planIds)}
     \cup (IF stack.exists THEN {planIdsOf(stack.plans)} ELSE {})

\* C28: the graph buildDependencyGraph returns for a plan list and the ids of
\* that list has no dependsOn id outside the list, and b is in dependsOn of a
\* exactly when a is in dependents of b.
C28_GraphSymmetric ==
  \A plans \in GraphInputs :
     WellFormedGraph(buildDependencyGraph(planStore, plans), plans)

\* the stack holds a plan that depends on another plan of the stack and whose
\* file also refers to a plan outside the stack
C28_Witness ==
  /\ stack.exists
  /\ \E a \in Range(planIdsOf(stack.plans)) :
        LET node == buildDependencyGraph(planStore, planIdsOf(stack.plans)).nodes[a]
        IN /\ node.dependsOnPlanIds # <<>>
           /\ a \notin Range(node.dependsOnPlanIds)
           /\ Len(references(planStore, a)) > Len(node.dependsOnPlanIds)

(***************************************************************************)
(* Reading the status of a stack.                                          *)
(***************************************************************************)
\* C29: the status read for the stack has an entry for every task of the
\* stack: the stored entry as it is where there is one, pending with every
\* other field null where there is none; lastRunAt and the flag are the stored
\* ones, and null and false when no record is stored.
C29_StatusReadForEveryTask ==
  stack.exists =>
     LET read == loadStackStatus(statusFile, planIdsOf(stack.plans))
     IN /\ \A id \in Range(planIdsOf(stack.plans)) :
              /\ id \in DOMAIN read.planStatuses
              /\ read.planStatuses[id] =
                    IF statusFile.exists /\ id \in DOMAIN statusFile.planStatuses
                    THEN statusFile.planStatuses[id]
                    ELSE PendingStatus
        /\ read.isRunning = (statusFile.exists /\ statusFile.isRunning)
        /\ read.lastRunAt = (IF statusFile.exists THEN statusFile.lastRunAt ELSE NULL)

\* a status record is stored with a completed task in it, and the stack has
\* since been given a task for which nothing is stored
C29_Witness ==
  /\ stack.exists
  /\ statusFile.exists
  /\ \E id \in Range(planIdsOf(stack.plans)) : id \notin DOMAIN statusFile.planStatuses
  /\ \E id \in Range(planIdsOf(stack.plans)) :
        /\ id \in DOMAIN statusFile.planStatuses
        /\ statusFile.planStatuses[id].executionStatus = "completed"

(***************************************************************************)
(* A run given a start task.                                               *)
(***************************************************************************)
\* the sorted order of the run's stack from the start task on
FromStart ==
  LET sorted == getExecutionOrder(runStack).sortedPlanIds
  IN SubSeq(sorted, indexOf(sorted, opts.from[1]), Len(sorted))

\* the loop has dealt with the task: it was completed already, it was given to
\* the worker, or it was marked skipped
Processed(id) ==
  \/ id \in CompletedAtStart
  \/ id \in invoked
  \/ /\ StatusOf(statusFile, id) = "skipped"
     /\ EntryOf(statusFile, id).errorMessage = Some(SkippedMessage)

\* C30: a run given a start task of the stack goes through the sorted order
\* from that task to its end, task by task, and deals with each of them; the
\* tasks that precede the start task get no worker and their status entries
\* stay as the run found them.
C30_FromStartToEnd ==
  (pc \in {"loop", "worker"} /\ opts.from # NULL) =>
     /\ includes(getExecutionOrder(runStack).sortedPlanIds, opts.from[1])
     /\ executionOrder = FromStart
     /\ invoked \subseteq {executionOrder[k] : k \in 1..Min({idx, Len(executionOrder)})}
     /\ \A k \in 1..Min({idx - 1, Len(executionOrder)}) : Processed(executionOrder[k])
     /\ \A id \in Range(planIdsOf(runStack)) \ Range(FromStart) :
           /\ id \notin invoked
           /\ EntryOf(statusFile, id) = EntryOf(startStatus, id)

\* a run from a start task has gone through its order and invoked a worker,
\* while a task that precedes the start task is still as an earlier run left
\* it, failed
C30_Witness ==
  /\ OrderExhausted
  /\ opts.from # NULL
  /\ invoked # {}
  /\ \E id \in Range(planIdsOf(runStack)) \ Range(executionOrder) :
        StatusOf(statusFile, id) = "failed"

(***************************************************************************)
(* The results of a run.                                                   *)
(***************************************************************************)
\* C31: when the loop has gone through the order, the results hold one entry
\* for each task of the order that was not completed when the run began, in
\* the order of execution, each with the status completed, failed or skipped
\* that is persisted for the task.
C31_ResultsMatchPersisted ==
  OrderExhausted =>
     /\ [i \in 1..Len(results) |-> results[i][1]]
           = SelectSeq(executionOrder, LAMBDA id : id \notin CompletedAtStart)
     /\ \A i \in 1..Len(results) :
           /\ results[i][2] \in Terminal
           /\ results[i][2] = StatusOf(statusFile, results[i][1])

\* a run that found a task completed has gone through its order with a failed
\* and a skipped task in its results
C31_Witness ==
  /\ OrderExhausted
  /\ \E id \in Range(executionOrder) : id \in CompletedAtStart
  /\ \E i, j \in 1..Len(results) : results[i][2] = "failed" /\ results[j][2] = "skipped"

(***************************************************************************)
(* Completed tasks rest on completed dependencies.                         *)
(***************************************************************************)
\* C32: on a stack whose plans do not change, through runs of the whole order or
\* from a start task, interrupted or not, and through resets, every task that is
\* persisted as completed has all its dependencies in the stack persisted as
\* completed.
C32_CompletedHaveCompletedDeps ==
  stack.exists =>
     \A i \in 1..Len(stack.plans) :
        StatusOf(statusFile, stack.plans[i].planId) = "completed" =>
           \A d \in Range(stack.plans[i].dependsOnPlanIds) :
              StatusOf(statusFile, d) = "completed"

\* a run that began at a start task has completed a task that has a dependency,
\* while another task of the stack is persisted as failed
C32_Witness ==
  /\ stack.exists
  /\ opts.from # NULL
  /\ \E i \in 1..Len(stack.plans) :
        /\ stack.plans[i].dependsOnPlanIds # <<>>
        /\ stack.plans[i].planId \in invoked
        /\ StatusOf(statusFile, stack.plans[i].planId) = "completed"
  /\ \E i \in 1..Len(stack.plans) :
        StatusOf(statusFile, stack.plans[i].planId) = "failed"

(***************************************************************************)
(* The two persisted copies of a task's status.                            *)
(***************************************************************************)
\* C33: whenever no run is in progress, the status that the stack record holds
\* for a task is the status that the status record holds for it.
C33_RecordsAgree ==
  (pc = "idle" /\ stack.exists) =>
     \A i \in 1..Len(stack.plans) :
        stack.plans[i].executionStatus = StatusOf(statusFile, stack.plans[i].planId)

(***************************************************************************)
(* LifeSpec: a stack is run, deleted between runs and created again under  *)
(* the same name from the plan files it was first created from.            *)
(***************************************************************************)
MaxLifePlans == 2   \* longest plan list of the first stack in LifeSpec
MaxLifeEdges == 1   \* most dependency references among the plan files in LifeSpec

\* deleteStack called while no run command is at work
DeleteCommand ==
  /\ pc = "idle"
  /\ DeleteStack

LifeInit == CreatedStack(MaxLifePlans, MaxLifeEdges)

LifeNext ==
  \/ Next
  \/ DeleteCommand
  \/ \E planIds \in Requests : \E autoResolveDependencies \in BOOLEAN :
        CreateStack(planIds, autoResolveDependencies)

LifeSpec == LifeInit /\ [][LifeNext]_vars

\* C34: right after createStack has saved a stack, the status store reads
\* pending for every task of the stack and reads the stack as not running.
C34_CreatedReadsFresh ==
  (lastOp = "created" /\ stack.exists) =>
     /\ ~loadStackStatus(statusFile, planIdsOf(stack.plans)).isRunning
     /\ \A i \in 1..Len(stack.plans) :
           loadStackStatus(statusFile, planIdsOf(stack.plans))
              .planStatuses[stack.plans[i].planId].executionStatus = "pending"

(***************************************************************************)
(* LossSpec: stacks are created and added to while plan files disappear    *)
(* from the plans directory.                                               *)
(***************************************************************************)
\* a plan file is removed: loadPlanById finds no plan for the id any more
LosePlanFile(planId) ==
  /\ pc = "idle"
  /\ planStore[planId] # NULL
  /\ planStore' = [planStore EXCEPT ![planId] = NULL]
  /\ UNCHANGED <<sortVars, sideVars, storeVars, runVars, histVars>>

LossNext ==
  \/ \E planIds \in Requests : \E autoResolveDependencies \in BOOLEAN :
        CreateStack(planIds, autoResolveDependencies)
  \/ \E planIds \in AddRequests : \E autoResolveDependencies \in BOOLEAN :
        AddPlans(planIds, autoResolveDependencies)
  \/ \E planId \in PlanIds : LosePlanFile(planId)

MaxLossEdges == 1   \* most references among the plan files in LossSpec

\* no stack yet; some plan files, which may refer to plans that have no file
LossInit ==
  /\ sortInput = <<>>
  /\ spc = "off"
  /\ inDegree = <<>>
  /\ queue = <<>>
  /\ sortedPlanIds = <<>>
  /\ sortResult = NULL
  /\ \E ids \in SUBSET PlanIds :
        \E edges \in SeqsUpTo(ids \X PlanIds, MaxLossEdges) :
           planStore = StoreOf(ids, edges)
  /\ stack = NoStack
  /\ statusFile = NoStatusFile
  /\ IdleRun

LossSpec == LossInit /\ [][LossNext]_vars

\* C35: a step of addPlansToStack leaves every task that was in the stack in the
\* stack, with the execution status, last-executed time and duration it had.
C35_AddKeepsExisting ==
  [][(request'.command = "add" /\ lastOp' = "added" /\ stack' # stack) =>
        \A i \in 1..Len(stack.plans) :
           \E j \in 1..Len(stack'.plans) :
              /\ stack'.plans[j].planId = stack.plans[i].planId
              /\ stack'.plans[j].executionStatus = stack.plans[i].executionStatus
              /\ stack'.plans[j].lastExecutedAt = stack.plans[i].lastExecutedAt
              /\ stack'.plans[j].executionDurationMs = stack.plans[i].executionDurationMs]_vars

(***************************************************************************)
(* The structure of a persisted stack.                                     *)
(***************************************************************************)
\* a persisted stack has a task, and every dependency of its tasks is a task of it
StackWellFormed ==
  stack.exists =>
     /\ Len(stack.plans) >= 1
     /\ \A i \in 1..Len(stack.plans) :
           Range(stack.plans[i].dependsOnPlanIds) \subseteq Range(planIdsOf(stack.plans))

\* the call of removePlansFromStack names every task of the stack
RemovesAll ==
  /\ request'.command = "remove"
  /\ stack.exists
  /\ Range(planIdsOf(stack.plans)) \subseteq Range(request'.planIds)

\* C36: through creations, additions and removals the persisted stack has at
\* least one task and every dependency id in it is the id of a task of the
\* stack; a removal that names every task of the stack ends in an error and the
\* stack record is as it was.
C36_StackStaysWellFormed ==
  /\ []StackWellFormed
  /\ [][(lastOp' # lastOp \/ request' # request \/ stack' # stack) /\ RemovesAll
           => (lastOp' = "removeError" /\ stack' = stack)]_vars

\* a task has been removed from a stack in which a task that is left refers to it
C36_Witness ==
  /\ lastOp = "removed"
  /\ stack.exists
  /\ \E i \in 1..Len(stack.plans) :
        request.planIds[1] \in Range(references(planStore, stack.plans[i].planId))

(***************************************************************************)
(* CallSpec: executeStack is called as the function the engine exports,    *)
(* with any start task, without the checks the run command makes first.    *)
(***************************************************************************)
MaxCallPlans == 2   \* longest plan list of a stack in CallSpec
MaxCallEdges == 1   \* most dependency references of a stack in CallSpec

\* executeStack({stackName, fromPlanId}) called by a caller other than runCommand
ExecuteStackCall(fromPlanId) ==
  /\ pc = "idle"
  /\ pc' = "execute"
  /\ opts' = [reset |-> FALSE, from |-> fromPlanId, dryRun |-> FALSE]
  /\ invoked' = {}
  /\ results' = <<>>
  /\ executionOrder' = <<>>
  /\ startStatus' = NoStatusFile
  /\ lastOp' = "running"
  /\ UNCHANGED <<sortVars, sideVars, allStoreVars, runStack, idx, completedPlanIds>>

CallInit == CreatedStack(MaxCallPlans, MaxCallEdges)

CallNext ==
  \/ \E fromPlanId \in {NULL} \cup {Some(id) : id \in PlanIds} : ExecuteStackCall(fromPlanId)
  \/ ExecuteStackBegin
  \/ LoopContinue
  \/ LoopSkip
  \/ LoopStart
  \/ \E outcome \in RunOutcomes : WorkerReturns(outcome)
  \/ ExecuteStackEnd

CallSpec == CallInit /\ [][CallNext]_vars

\* C37: while executeStack goes through its order after being given a start
\* task that is not in the stack, no worker has been invoked and every task has
\* the status it had when the call began.
C37_UnknownStartDoesNothing ==
  (pc \in {"loop", "worker"} /\ opts.from # NULL
     /\ opts.from[1] \notin Range(planIdsOf(runStack))) =>
        /\ invoked = {}
        /\ pc = "loop"
        /\ \A id \in Range(planIdsOf(runStack)) :
              StatusOf(statusFile, id) = StatusOf(startStatus, id)

(***************************************************************************)
(* Rejected run commands.                                                  *)
(***************************************************************************)
\* C38: a run command that ends with the report of a dependency cycle, or of a
\* start task that is not in the stack, leaves the status record (every task
\* status, lastRunAt, isRunning) as a reader found it before, whatever its other
\* options are.
C38_RejectionWritesNothing ==
  [][(pc = "idle" /\ pc' = "idle" /\ lastOp' \in {"cycle", "fromNotFound"}) =>
        RecordRead(statusFile', stack) = RecordRead(statusFile, stack)]_vars

(***************************************************************************)
(* The order holds every task once.                                        *)
(***************************************************************************)
\* the number of places of a sequence that hold x
Occurrences(s, x) == Cardinality({i \in 1..Len(s) : s[i] = x})

\* C39: for an acyclic graph the order returned holds the id of every task
\* exactly once and no other id, also when a task lists a dependency more than
\* once.
C39_EveryTaskOnce ==
  (spc = "done" /\ ~Cyclic(sortInput)) =>
     /\ Range(sortResult.sortedPlanIds) = TaskIds(sortInput)
     /\ \A t \in TaskIds(sortInput) : Occurrences(sortResult.sortedPlanIds, t) = 1

\* a sort has returned for an acyclic graph of three tasks in which a task lists
\* the same dependency twice
C39_Witness ==
  /\ spc = "done"
  /\ ~Cyclic(sortInput)
  /\ Cardinality(TaskIds(sortInput)) = 3
  /\ \E i \in 1..Len(sortInput) :
        \E j, k \in 1..Len(sortInput[i].dependsOnPlanIds) :
           j # k /\ sortInput[i].dependsOnPlanIds[j] = sortInput[i].dependsOnPlanIds[k]

(***************************************************************************)
(* ResolveSpec: resolveAllDependencies run step by step.  A reference is   *)
(* the text of a wiki link: the id of a plan, or a path form of it such as *)
(* "./id".  loadPlanById joins the text to the plans directory and         *)
(* parsePlanFile takes the planId from the base name of the joined path.   *)
(***************************************************************************)
MaxResolveEdges == 2   \* most references among the plan files in ResolveSpec
MaxResolved == 5       \* longest list allPlans the model follows

\* the reference "./id", written as the negative of the id
PathForm(id) == 0 - id

RefNames == PlanIds \cup {PathForm(id) : id \in PlanIds}

\* basename(join(plansDirectory, `${planId}.md`), '.md')
basenameOf(name) == IF name < 0 THEN 0 - name ELSE name

\* loadPlanById for the text of a reference: null, or the plan with the planId
\* parsePlanFile gives it and its references
loadPlanByName(store, name) ==
  IF store[basenameOf(name)] = NULL THEN NULL
  ELSE Some([planId |-> basenameOf(name), references |-> store[basenameOf(name)][1]])

\* resolveAllDependencies called by createStack with the plans it could load
\* (stack-manager.ts lines 33-50)
ResolveBegin(planIds) ==
  /\ rpc = "idle"
  /\ validPlansOf(planStore, planIds) # <<>>
  /\ rAllPlanIds' = Range(validPlansOf(planStore, planIds))
  /\ rAllPlans' = validPlansOf(planStore, planIds)
  /\ rToResolve' = Flatten([i \in 1..Len(validPlansOf(planStore, planIds)) |->
                              references(planStore, validPlansOf(planStore, planIds)[i])])
  /\ rpc' = "loop"
  /\ request' = [command |-> "create", planIds |-> planIds, autoResolveDependencies |-> TRUE]
  /\ UNCHANGED <<sortVars, otherRun, allStoreVars, runVars, histVars>>

\* one iteration of the while loop
ResolveStep ==
  /\ rpc = "loop"
  /\ rToResolve # <<>>
  /\ LET refId == rToResolve[Len(rToResolve)]
         rest == SubSeq(rToResolve, 1, Len(rToResolve) - 1)
         refPlan == loadPlanByName(planStore, refId)
     IN IF refId \in rAllPlanIds \/ refPlan = NULL
        THEN /\ rToResolve' = rest
             /\ UNCHANGED <<rAllPlanIds, rAllPlans>>
        ELSE /\ Len(rAllPlans) < MaxResolved
             /\ rAllPlanIds' = rAllPlanIds \cup {refPlan[1].planId}
             /\ rAllPlans' = Append(rAllPlans, refPlan[1].planId)
             /\ rToResolve' = rest \o refPlan[1].references
  /\ UNCHANGED <<sortVars, otherRun, request, rpc, allStoreVars, runVars, histVars>>

\* return allPlans
ResolveReturn ==
  /\ rpc = "loop"
  /\ rToResolve = <<>>
  /\ rpc' = "done"
  /\ UNCHANGED <<sortVars, otherRun, request, rAllPlanIds, rAllPlans, rToResolve, allStoreVars,
                 runVars, histVars>>

\* some plan files, whose references are ids or path forms of ids, of plans
\* that have a file or have none
ResolveInit ==
  /\ sortInput = <<>>
  /\ spc = "off"
  /\ inDegree = <<>>
  /\ queue = <<>>
  /\ sortedPlanIds = <<>>
  /\ sortResult = NULL
  /\ \E ids \in SUBSET PlanIds :
        \E edges \in SeqsUpTo(ids \X RefNames, MaxResolveEdges) :
           planStore = StoreOf(ids, edges)
  /\ stack = NoStack
  /\ statusFile = NoStatusFile
  /\ IdleRun

ResolveNext ==
  \/ \E planIds \in Requests : ResolveBegin(planIds)
  \/ ResolveStep
  \/ ResolveReturn

ResolveSpec == ResolveInit /\ [][ResolveNext]_vars

\* the plans the call was given
GivenPlans == validPlansOf(planStore, request.planIds)

\* the plans with a file that the references of the plans in S name
ReferredBy(S) ==
  {basenameOf(r) : r \in UNION {Range(references(planStore, p)) : p \in S}}
     \cap {id \in PlanIds : planStore[id] # NULL}

RECURSIVE ReachableFrom(_)
ReachableFrom(S) ==
  IF ReferredBy(S) \subseteq S THEN S ELSE ReachableFrom(S \cup ReferredBy(S))

\* C40: the closure adds a plan to its list at most once, which is what ends
\* the loop on every finite set of plan files, and what it returns is the plans
\* it was given together with exactly the plans that have a file and are reached
\* from them through references.
C40_ClosureOfLoadable ==
  /\ rpc \in {"loop", "done"} =>
        \A id \in PlanIds :
           Occurrences(rAllPlans, id)
              <= Occurrences(GivenPlans, id) + (IF id \in Range(GivenPlans) THEN 0 ELSE 1)
  /\ rpc = "done" => Range(rAllPlans) = ReachableFrom(Range(GivenPlans))

====
